---------------------------- MODULE Spec2Model ----------------------------
(***************************************************************************)
(* unifi-network-mcp: the safety layer of the tool server.                 *)
(*                                                                         *)
(* The module models                                                       *)
(*   - the values that cross the tool boundary (JSON values, the text of   *)
(*     a result envelope as a sequence of fragments / JSON tokens),        *)
(*   - utils/safety.ts, utils/query.ts, utils/responses.ts, client.ts,     *)
(*   - the tool catalogue of every register*Tools function, one record per *)
(*     server.registerTool call, in registration order,                    *)
(*   - the process: main() registers the groups, connects, and then tools  *)
(*     are invoked; an invocation runs synchronously up to its await of    *)
(*     the network collaborator and is resumed by the response.            *)
(***************************************************************************)
EXTENDS Integers, Sequences, FiniteSets, TLC

\* Number of invocations that may be awaiting the network collaborator or
\* holding an unread result at the same time.
MaxInflight == 1

\* Number of NetworkClient instances constructed in one process.
MaxClients == 2

-----------------------------------------------------------------------------
(* JavaScript values.  Every value is a record tagged by t so that any two  *)
(* values can be compared.  A number is kept as its decimal literal, the    *)
(* form String(n) and JSON.stringify(n) print.  An object is the sequence   *)
(* of its own properties <<key, value>> in insertion order.                 *)

Undefined == [t |-> "undefined"]
Null == [t |-> "null"]
Bool(b) == [t |-> "boolean", b |-> b]
Str(s) == [t |-> "string", s |-> s]
Num(lit) == [t |-> "number", n |-> lit]
Arr(items) == [t |-> "array", items |-> items]
Obj(kv) == [t |-> "object", kv |-> kv]

\* ToBoolean, as applied by `if (dryRun)`, `if (force)`, `if (guard)`.
Truthy(v) ==
  CASE v.t = "undefined" -> FALSE
    [] v.t = "null" -> FALSE
    [] v.t = "boolean" -> v.b
    [] v.t = "string" -> v.s # ""
    [] v.t = "number" -> v.n \notin {"0", "NaN"}
    [] OTHER -> TRUE

HasKey(o, k) == \E i \in 1..Len(o.kv) : o.kv[i][1] = k

Get(o, k) ==
  IF HasKey(o, k)
    THEN o.kv[CHOOSE i \in 1..Len(o.kv) : o.kv[i][1] = k][2]
    ELSE Undefined

\* o[k] = v : replaces the property in place, or appends a new one.
SetKey(kv, k, v) ==
  IF \E i \in 1..Len(kv) : kv[i][1] = k
    THEN [i \in 1..Len(kv) |-> IF kv[i][1] = k THEN <<k, v>> ELSE kv[i]]
    ELSE Append(kv, <<k, v>>)

-----------------------------------------------------------------------------
(* Text.  A text is a sequence of fragments, each a one-field record: raw   *)
(* is literal text, and a JSON document is the sequence of its tokens       *)
(* (p punctuation, str a string literal, num a number literal, lit one of   *)
(* true, false, null).  White space between tokens is not kept.             *)

Raw(s) == [raw |-> s]
P(c) == [p |-> c]
StrTok(s) == [str |-> s]
NumTok(l) == [num |-> l]
Lit(w) == [lit |-> w]

IsP(tok, c) == "p" \in DOMAIN tok /\ tok.p = c

\* text.includes(w), decided on fragment boundaries.
Contains(text, w) == \E i \in 1..Len(text) : text[i] = Raw(w)

RECURSIVE SerializeValue(_)
RECURSIVE SerializeMembers(_, _, _)
RECURSIVE SerializeElements(_, _)

\* The properties of an object: a property whose value is undefined is
\* skipped.
SerializeMembers(kv, i, first) ==
  IF i > Len(kv) THEN <<>>
  ELSE IF kv[i][2] = Undefined THEN SerializeMembers(kv, i + 1, first)
  ELSE (IF first THEN <<>> ELSE <<P(",")>>)
         \o <<StrTok(kv[i][1]), P(":")>> \o SerializeValue(kv[i][2])
         \o SerializeMembers(kv, i + 1, FALSE)

\* The elements of an array: an undefined element is written as null.
SerializeElements(items, i) ==
  IF i > Len(items) THEN <<>>
  ELSE (IF i = 1 THEN <<>> ELSE <<P(",")>>)
         \o (IF items[i] = Undefined THEN <<Lit("null")>>
                                     ELSE SerializeValue(items[i]))
         \o SerializeElements(items, i + 1)

SerializeValue(v) ==
  CASE v.t = "null" -> <<Lit("null")>>
    [] v.t = "boolean" -> <<Lit(IF v.b THEN "true" ELSE "false")>>
    [] v.t = "string" -> <<StrTok(v.s)>>
    [] v.t = "number" ->
         IF v.n \in {"NaN", "Infinity", "-Infinity"}
           THEN <<Lit("null")>> ELSE <<NumTok(v.n)>>
    [] v.t = "array" -> <<P("[")>> \o SerializeElements(v.items, 1) \o <<P("]")>>
    [] v.t = "object" -> <<P("{")>> \o SerializeMembers(v.kv, 1, TRUE) \o <<P("}")>>

\* JSON.stringify(value, null, 2) of a value other than undefined.
JSONStringify(v) == SerializeValue(v)

RECURSIVE ParseValue(_, _)
RECURSIVE ParseMembers(_, _, _)
RECURSIVE ParseElements(_, _, _)

\* Reads one value starting at token i; next is the first token after it.
ParseValue(toks, i) ==
  LET tok == toks[i] IN
  IF IsP(tok, "{") THEN ParseMembers(toks, i + 1, <<>>)
  ELSE IF IsP(tok, "[") THEN ParseElements(toks, i + 1, <<>>)
  ELSE IF "str" \in DOMAIN tok THEN [value |-> Str(tok.str), next |-> i + 1]
  ELSE IF "num" \in DOMAIN tok THEN [value |-> Num(tok.num), next |-> i + 1]
  ELSE IF tok = Lit("true") THEN [value |-> Bool(TRUE), next |-> i + 1]
  ELSE IF tok = Lit("false") THEN [value |-> Bool(FALSE), next |-> i + 1]
  ELSE [value |-> Null, next |-> i + 1]

ParseMembers(toks, i, acc) ==
  IF IsP(toks[i], "}") THEN [value |-> Obj(acc), next |-> i + 1]
  ELSE IF IsP(toks[i], ",") THEN ParseMembers(toks, i + 1, acc)
  ELSE LET r == ParseValue(toks, i + 2)
       IN ParseMembers(toks, r.next, SetKey(acc, toks[i].str, r.value))

ParseElements(toks, i, acc) ==
  IF IsP(toks[i], "]") THEN [value |-> Arr(acc), next |-> i + 1]
  ELSE IF IsP(toks[i], ",") THEN ParseElements(toks, i + 1, acc)
  ELSE LET r == ParseValue(toks, i)
       IN ParseElements(toks, r.next, Append(acc, r.value))

\* JSON.parse(text)
JSONParse(text) == ParseValue(text, 1).value

-----------------------------------------------------------------------------
(* utils/query.ts                                                          *)

\* String(n): the decimal literal of the number.
String(v) == v.n

\* The percent-encoding URLSearchParams and encodeURIComponent apply, on the
\* strings the model uses; a string of unreserved characters is unchanged.
FormEncode(s) ==
  CASE s = "name.like(a*)" -> "name.like%28a*%29"
    [] s = "zone a" -> "zone+a"
    [] OTHER -> s

encodeURIComponent(s) ==
  CASE s = "zone a" -> "zone%20a"
    [] OTHER -> s

\* URLSearchParams.toString(): name=value pairs joined by &.
RECURSIVE SearchParamsToString(_, _)
SearchParamsToString(pairs, i) ==
  IF i > Len(pairs) THEN ""
  ELSE (IF i = 1 THEN "" ELSE "&")
         \o pairs[i][1] \o "=" \o FormEncode(pairs[i][2])
         \o SearchParamsToString(pairs, i + 1)

\* buildQuery testing its parameters for truthiness: it skips offset 0 and
\* an empty filter.
buildQueryTruthy(params) ==
  LET offset == Get(params, "offset")
      limit == Get(params, "limit")
      filter == Get(params, "filter")
      searchParams ==
        (IF Truthy(offset) THEN << <<"offset", String(offset)>> >> ELSE <<>>)
        \o (IF Truthy(limit) THEN << <<"limit", String(limit)>> >> ELSE <<>>)
        \o (IF Truthy(filter) THEN << <<"filter", filter.s>> >> ELSE <<>>)
      qs == SearchParamsToString(searchParams, 1)
  IN IF qs # "" THEN "?" \o qs ELSE ""

\* params is the object literal passed by the caller: a property left out
\* (or undefined) reads as undefined.
buildQuery(params) ==
  LET offset == Get(params, "offset")
      limit == Get(params, "limit")
      filter == Get(params, "filter")
      searchParams ==
        (IF offset # Undefined THEN << <<"offset", String(offset)>> >> ELSE <<>>)
        \o (IF limit # Undefined THEN << <<"limit", String(limit)>> >> ELSE <<>>)
        \o (IF filter # Undefined THEN << <<"filter", filter.s>> >> ELSE <<>>)
      qs == SearchParamsToString(searchParams, 1)
  IN IF qs # "" THEN "?" \o qs ELSE ""

-----------------------------------------------------------------------------
(* utils/safety.ts                                                         *)

READ_ONLY == [readOnlyHint |-> TRUE, destructiveHint |-> FALSE]

WRITE == [readOnlyHint |-> FALSE, destructiveHint |-> FALSE, idempotentHint |-> TRUE]

WRITE_NOT_IDEMPOTENT ==
  [readOnlyHint |-> FALSE, destructiveHint |-> FALSE, idempotentHint |-> FALSE]

\* DESTRUCTIVE written without destructiveHint: true.
DestructiveUnmarked ==
  [readOnlyHint |-> FALSE, destructiveHint |-> FALSE, idempotentHint |-> FALSE]

\* DESTRUCTIVE written with idempotentHint: true.
DestructiveIdempotent ==
  [readOnlyHint |-> FALSE, destructiveHint |-> TRUE, idempotentHint |-> TRUE]

DESTRUCTIVE == [readOnlyHint |-> FALSE, destructiveHint |-> TRUE, idempotentHint |-> FALSE]

TextContent(text) == <<[type |-> "text", text |-> text]>>

\* formatDryRun with the body key always written (body ?? null).
formatDryRunBodyAlways(method, path, body) ==
  LET preview ==
        Obj(<< <<"dryRun", Bool(TRUE)>>,
               <<"wouldExecute",
                 Obj(<< <<"method", Str(method)>>, <<"path", Str(path)>>,
                        <<"body", IF body # Undefined THEN body ELSE Null>> >>)>> >>)
  IN [content |-> TextContent(JSONStringify(preview))]

formatDryRun(method, path, body) ==
  LET preview ==
        Obj(<< <<"dryRun", Bool(TRUE)>>,
               <<"wouldExecute",
                 Obj(<< <<"method", Str(method)>>, <<"path", Str(path)>> >>
                     \o (IF body # Undefined THEN << <<"body", body>> >> ELSE <<>>))>> >>)
  IN [content |-> TextContent(JSONStringify(preview))]

\* The error envelope requireConfirmation returns.
ConfirmationError(action) ==
  [content |->
     TextContent(<<Raw("This action requires explicit "), Raw("confirm"),
                   Raw("ation: "), Raw(action), Raw(". Re-invoke with "),
                   Raw("confirm"), Raw(": true to proceed.")>>),
   isError |-> TRUE]

\* requireConfirmation testing `!confirm` instead of `confirm !== true`.
requireConfirmationTruthy(confirm, action) ==
  IF ~Truthy(confirm) THEN ConfirmationError(action) ELSE Null

\* requireConfirmation testing `confirm === false`.
requireConfirmationFalseOnly(confirm, action) ==
  IF confirm = Bool(FALSE) THEN ConfirmationError(action) ELSE Null

requireConfirmation(confirm, action) ==
  IF confirm # Bool(TRUE) THEN ConfirmationError(action) ELSE Null

-----------------------------------------------------------------------------
(* utils/responses.ts                                                      *)

formatSuccess(data) == [content |-> TextContent(JSONStringify(data))]

\* err is an Error; message is its text, as a sequence of fragments.
formatError(message) ==
  [content |-> TextContent(<<Raw("Error: ")>> \o message), isError |-> TRUE]

-----------------------------------------------------------------------------
(* client.ts: what NetworkClient hands to fetch.                           *)

request(method, path, body) ==
  IF body # Undefined
    THEN [method |-> method, path |-> path, body |-> JSONStringify(body)]
    ELSE [method |-> method, path |-> path]

\* get, post, put, patch, delete.  get and delete take no body parameter.
ClientCall(verb, path, body) ==
  CASE verb = "get" -> request("GET", path, Undefined)
    [] verb = "post" -> request("POST", path, body)
    [] verb = "put" -> request("PUT", path, body)
    [] verb = "patch" -> request("PATCH", path, body)
    [] verb = "delete" -> request("DELETE", path, Undefined)

\* The promise request() returns settles with the parsed data of an ok
\* response, and rejects with Error("HTTP <status>: <text>") otherwise; a
\* failed fetch rejects with its own error.
ErrorMessage(response) ==
  IF response.kind = "http"
    THEN <<Raw("HTTP "), Raw(response.status), Raw(": "), Raw(response.text)>>
    ELSE <<Raw(response.text)>>

-----------------------------------------------------------------------------
(* The tool catalogue.  One record per server.registerTool call:           *)
(*   name, description, inputSchema (its field names), optional (the       *)
(*   fields declared .optional()), annotations  -- the registered config;  *)
(*   steps, try, catch, action, body, dry, call -- the handler:            *)
(*     steps  the order in which the handler reaches requireConfirmation   *)
(*            ("confirm"), `if (dryRun)` ("dryRun") and the client call,   *)
(*     try    the steps inside the handler's try block,                    *)
(*     catch  what its catch clause returns,                               *)
(*     action the description passed to requireConfirmation,               *)
(*     body   how the request body is built from the input,                *)
(*     dry    the arguments of formatDryRun,                               *)
(*     call   the client method called and its arguments.                  *)
(* A path is the template literal split at its ${...} holes: a part that   *)
(* names an input field stands for that field's value.  A description that *)
(* starts with the marker is split after it.                               *)

Req(k) == [key |-> k, mode |-> "shorthand", val |-> Undefined]
Opt(k) == [key |-> k, mode |-> "ifDefined", val |-> Undefined]
Const(k, v) == [key |-> k, mode |-> "const", val |-> v]
MapNumber(k) == [key |-> k, mode |-> "mapNumber", val |-> Undefined]
Param(k) == [key |-> k, mode |-> "param", val |-> Undefined]

NoDryRun == [method |-> "", path |-> <<>>, query |-> [fn |-> "none", args |-> <<>>], body |-> "none"]

\* registerSystemTools (system.ts), phase 1: every read-only tool of the group, registered before the gate.
SystemToolsPhase1 ==
  <<
  [name |-> "unifi_get_info",
   description |-> <<"Get application information including version and whether it's a UniFi OS Console">>,
   inputSchema |-> {},
   optional |-> {},
   annotations |-> READ_ONLY,
   steps |-> <<"call">>,
   try |-> {"call"},
   catch |-> "formatError",
   action |-> "",
   body |-> <<>>,
   dry |-> NoDryRun,
   call |-> [verb |-> "get", path |-> <<"/info">>, query |-> [fn |-> "none", args |-> <<>>], body |-> "none"]]
  >>

\* registerSiteTools (registerSiteTools), phase 1: every read-only tool of the group, registered before the gate.
SiteToolsPhase1 ==
  <<
  [name |-> "unifi_list_sites",
   description |-> <<"List all sites available to the API key">>,
   inputSchema |-> {"offset", "limit", "filter"},
   optional |-> {"offset", "limit", "filter"},
   annotations |-> READ_ONLY,
   steps |-> <<"call">>,
   try |-> {"call"},
   catch |-> "formatError",
   action |-> "",
   body |-> <<>>,
   dry |-> NoDryRun,
   call |-> [verb |-> "get", path |-> <<"/sites">>, query |-> [fn |-> "buildQuery", args |-> <<"offset", "limit", "filter">>], body |-> "none"]]
  >>

\* registerDeviceTools (devices.ts), phase 1: every read-only tool of the group, registered before the gate.
DeviceToolsPhase1 ==
  <<
  [name |-> "unifi_list_devices",
   description |-> <<"List all adopted devices at a site">>,
   inputSchema |-> {"siteId", "offset", "limit", "filter"},
   optional |-> {"offset", "limit", "filter"},
   annotations |-> READ_ONLY,
   steps |-> <<"call">>,
   try |-> {"call"},
   catch |-> "formatError",
   action |-> "",
   body |-> <<>>,
   dry |-> NoDryRun,
   call |-> [verb |-> "get", path |-> <<"/sites/", "siteId", "/devices">>, query |-> [fn |-> "buildQuery", args |-> <<"offset", "limit", "filter">>], body |-> "none"]],
  [name |-> "unifi_get_device",
   description |-> <<"Get a specific device by ID">>,
   inputSchema |-> {"siteId", "deviceId"},
   optional |-> {},
   annotations |-> READ_ONLY,
   steps |-> <<"call">>,
   try |-> {"call"},
   catch |-> "formatError",
   action |-> "",
   body |-> <<>>,
   dry |-> NoDryRun,
   call |-> [verb |-> "get", path |-> <<"/sites/", "siteId", "/devices/", "deviceId">>, query |-> [fn |-> "none", args |-> <<>>], body |-> "none"]],
  [name |-> "unifi_get_device_statistics",
   description |-> <<"Get latest statistics for a device">>,
   inputSchema |-> {"siteId", "deviceId"},
   optional |-> {},
   annotations |-> READ_ONLY,
   steps |-> <<"call">>,
   try |-> {"call"},
   catch |-> "formatError",
   action |-> "",
   body |-> <<>>,
   dry |-> NoDryRun,
   call |-> [verb |-> "get", path |-> <<"/sites/", "siteId", "/devices/", "deviceId", "/statistics/latest">>, query |-> [fn |-> "none", args |-> <<>>], body |-> "none"]],
  [name |-> "unifi_list_pending_devices",
   description |-> <<"List devices pending adoption (global, not site-specific)">>,
   inputSchema |-> {"offset", "limit", "filter"},
   optional |-> {"offset", "limit", "filter"},
   annotations |-> READ_ONLY,
   steps |-> <<"call">>,
   try |-> {"call"},
   catch |-> "formatError",
   action |-> "",
   body |-> <<>>,
   dry |-> NoDryRun,
   call |-> [verb |-> "get", path |-> <<"/pending-devices">>, query |-> [fn |-> "buildQuery", args |-> <<"offset", "limit", "filter">>], body |-> "none"]]
  >>

\* registerDeviceTools, phase 2: the mutating tools registered after `if (readOnly) return`.
DeviceToolsPhase2 ==
  <<
  [name |-> "unifi_adopt_device",
   description |-> <<"Adopt a pending device">>,
   inputSchema |-> {"siteId", "macAddress", "dryRun"},
   optional |-> {"dryRun"},
   annotations |-> WRITE_NOT_IDEMPOTENT,
   steps |-> <<"dryRun", "call">>,
   try |-> {"call"},
   catch |-> "formatError",
   action |-> "",
   body |-> <<Req("macAddress"), Const("ignoreDeviceLimit", Bool(FALSE))>>,
   dry |-> [method |-> "POST", path |-> <<"/sites/", "siteId", "/devices">>, query |-> [fn |-> "none", args |-> <<>>], body |-> "body"],
   call |-> [verb |-> "post", path |-> <<"/sites/", "siteId", "/devices">>, query |-> [fn |-> "none", args |-> <<>>], body |-> "body"]],
  [name |-> "unifi_remove_device",
   description |-> <<"DESTRUCTIVE:", " Remove (unadopt) a device from a site. If the device is online, it will be reset to factory defaults">>,
   inputSchema |-> {"siteId", "deviceId", "confirm", "dryRun"},
   optional |-> {"confirm", "dryRun"},
   annotations |-> DESTRUCTIVE,
   steps |-> <<"confirm", "dryRun", "call">>,
   try |-> {"call"},
   catch |-> "formatError",
   action |-> "This will remove the device from the site. If the device is online, it will be reset to factory defaults",
   body |-> <<>>,
   dry |-> [method |-> "DELETE", path |-> <<"/sites/", "siteId", "/devices/", "deviceId">>, query |-> [fn |-> "none", args |-> <<>>], body |-> "empty"],
   call |-> [verb |-> "delete", path |-> <<"/sites/", "siteId", "/devices/", "deviceId">>, query |-> [fn |-> "none", args |-> <<>>], body |-> "none"]],
  [name |-> "unifi_restart_device",
   description |-> <<"Restart a device">>,
   inputSchema |-> {"siteId", "deviceId", "dryRun"},
   optional |-> {"dryRun"},
   annotations |-> WRITE,
   steps |-> <<"dryRun", "call">>,
   try |-> {"call"},
   catch |-> "formatError",
   action |-> "",
   body |-> <<Const("action", Str("RESTART"))>>,
   dry |-> [method |-> "POST", path |-> <<"/sites/", "siteId", "/devices/", "deviceId", "/actions">>, query |-> [fn |-> "none", args |-> <<>>], body |-> "body"],
   call |-> [verb |-> "post", path |-> <<"/sites/", "siteId", "/devices/", "deviceId", "/actions">>, query |-> [fn |-> "none", args |-> <<>>], body |-> "body"]],
  [name |-> "unifi_power_cycle_port",
   description |-> <<"Power cycle a specific port on a device (PoE restart)">>,
   inputSchema |-> {"siteId", "deviceId", "portIdx", "dryRun"},
   optional |-> {"dryRun"},
   annotations |-> WRITE,
   steps |-> <<"dryRun", "call">>,
   try |-> {"call"},
   catch |-> "formatError",
   action |-> "",
   body |-> <<Const("action", Str("POWER_CYCLE"))>>,
   dry |-> [method |-> "POST", path |-> <<"/sites/", "siteId", "/devices/", "deviceId", "/interfaces/ports/", "portIdx", "/actions">>, query |-> [fn |-> "none", args |-> <<>>], body |-> "body"],
   call |-> [verb |-> "post", path |-> <<"/sites/", "siteId", "/devices/", "deviceId", "/interfaces/ports/", "portIdx", "/actions">>, query |-> [fn |-> "none", args |-> <<>>], body |-> "body"]]
  >>

\* registerClientTools (clients.ts), phase 1: every read-only tool of the group, registered before the gate.
ClientToolsPhase1 ==
  <<
  [name |-> "unifi_list_clients",
   description |-> <<"List all connected clients (wired, wireless, VPN) at a site">>,
   inputSchema |-> {"siteId", "offset", "limit", "filter"},
   optional |-> {"offset", "limit", "filter"},
   annotations |-> READ_ONLY,
   steps |-> <<"call">>,
   try |-> {"call"},
   catch |-> "formatError",
   action |-> "",
   body |-> <<>>,
   dry |-> NoDryRun,
   call |-> [verb |-> "get", path |-> <<"/sites/", "siteId", "/clients">>, query |-> [fn |-> "buildQuery", args |-> <<"offset", "limit", "filter">>], body |-> "none"]],
  [name |-> "unifi_get_client",
   description |-> <<"Get a specific client by ID">>,
   inputSchema |-> {"siteId", "clientId"},
   optional |-> {},
   annotations |-> READ_ONLY,
   steps |-> <<"call">>,
   try |-> {"call"},
   catch |-> "formatError",
   action |-> "",
   body |-> <<>>,
   dry |-> NoDryRun,
   call |-> [verb |-> "get", path |-> <<"/sites/", "siteId", "/clients/", "clientId">>, query |-> [fn |-> "none", args |-> <<>>], body |-> "none"]]
  >>

\* registerClientTools, phase 2: the mutating tools registered after `if (readOnly) return`.
ClientToolsPhase2 ==
  <<
  [name |-> "unifi_authorize_guest",
   description |-> <<"Authorize a guest client on a hotspot network">>,
   inputSchema |-> {"siteId", "clientId", "timeLimitMinutes", "dataUsageLimitMBytes", "rxRateLimitKbps", "txRateLimitKbps", "dryRun"},
   optional |-> {"timeLimitMinutes", "dataUsageLimitMBytes", "rxRateLimitKbps", "txRateLimitKbps", "dryRun"},
   annotations |-> WRITE_NOT_IDEMPOTENT,
   steps |-> <<"dryRun", "call">>,
   try |-> {"call"},
   catch |-> "formatError",
   action |-> "",
   body |-> <<Const("action", Str("AUTHORIZE_GUEST_ACCESS")), Opt("timeLimitMinutes"), Opt("dataUsageLimitMBytes"), Opt("rxRateLimitKbps"), Opt("txRateLimitKbps")>>,
   dry |-> [method |-> "POST", path |-> <<"/sites/", "siteId", "/clients/", "clientId", "/actions">>, query |-> [fn |-> "none", args |-> <<>>], body |-> "body"],
   call |-> [verb |-> "post", path |-> <<"/sites/", "siteId", "/clients/", "clientId", "/actions">>, query |-> [fn |-> "none", args |-> <<>>], body |-> "body"]],
  [name |-> "unifi_unauthorize_guest",
   description |-> <<"Unauthorize a guest client">>,
   inputSchema |-> {"siteId", "clientId", "dryRun"},
   optional |-> {"dryRun"},
   annotations |-> WRITE,
   steps |-> <<"dryRun", "call">>,
   try |-> {"call"},
   catch |-> "formatError",
   action |-> "",
   body |-> <<Const("action", Str("UNAUTHORIZE_GUEST_ACCESS"))>>,
   dry |-> [method |-> "POST", path |-> <<"/sites/", "siteId", "/clients/", "clientId", "/actions">>, query |-> [fn |-> "none", args |-> <<>>], body |-> "body"],
   call |-> [verb |-> "post", path |-> <<"/sites/", "siteId", "/clients/", "clientId", "/actions">>, query |-> [fn |-> "none", args |-> <<>>], body |-> "body"]]
  >>

\* registerNetworkTools (networks.ts), phase 1: every read-only tool of the group, registered before the gate.
NetworkToolsPhase1 ==
  <<
  [name |-> "unifi_list_networks",
   description |-> <<"List all networks at a site">>,
   inputSchema |-> {"siteId", "offset", "limit", "filter"},
   optional |-> {"offset", "limit", "filter"},
   annotations |-> READ_ONLY,
   steps |-> <<"call">>,
   try |-> {"call"},
   catch |-> "formatError",
   action |-> "",
   body |-> <<>>,
   dry |-> NoDryRun,
   call |-> [verb |-> "get", path |-> <<"/sites/", "siteId", "/networks">>, query |-> [fn |-> "buildQuery", args |-> <<"offset", "limit", "filter">>], body |-> "none"]],
  [name |-> "unifi_get_network",
   description |-> <<"Get a specific network by ID">>,
   inputSchema |-> {"siteId", "networkId"},
   optional |-> {},
   annotations |-> READ_ONLY,
   steps |-> <<"call">>,
   try |-> {"call"},
   catch |-> "formatError",
   action |-> "",
   body |-> <<>>,
   dry |-> NoDryRun,
   call |-> [verb |-> "get", path |-> <<"/sites/", "siteId", "/networks/", "networkId">>, query |-> [fn |-> "none", args |-> <<>>], body |-> "none"]],
  [name |-> "unifi_get_network_references",
   description |-> <<"Get references to a network (what WiFi broadcasts, firewall zones, etc. use this network)">>,
   inputSchema |-> {"siteId", "networkId"},
   optional |-> {},
   annotations |-> READ_ONLY,
   steps |-> <<"call">>,
   try |-> {"call"},
   catch |-> "formatError",
   action |-> "",
   body |-> <<>>,
   dry |-> NoDryRun,
   call |-> [verb |-> "get", path |-> <<"/sites/", "siteId", "/networks/", "networkId", "/references">>, query |-> [fn |-> "none", args |-> <<>>], body |-> "none"]]
  >>

\* registerNetworkTools, phase 2: the mutating tools registered after `if (readOnly) return`.
NetworkToolsPhase2 ==
  <<
  [name |-> "unifi_create_network",
   description |-> <<"Create a new network">>,
   inputSchema |-> {"siteId", "name", "management", "enabled", "vlanId", "dryRun"},
   optional |-> {"dryRun"},
   annotations |-> WRITE_NOT_IDEMPOTENT,
   steps |-> <<"dryRun", "call">>,
   try |-> {"dryRun", "call"},
   catch |-> "formatError",
   action |-> "",
   body |-> <<Req("name"), Req("management"), Req("enabled"), Req("vlanId")>>,
   dry |-> [method |-> "POST", path |-> <<"/sites/", "siteId", "/networks">>, query |-> [fn |-> "none", args |-> <<>>], body |-> "body"],
   call |-> [verb |-> "post", path |-> <<"/sites/", "siteId", "/networks">>, query |-> [fn |-> "none", args |-> <<>>], body |-> "body"]],
  [name |-> "unifi_update_network",
   description |-> <<"Update an existing network">>,
   inputSchema |-> {"siteId", "networkId", "name", "management", "enabled", "vlanId", "dryRun"},
   optional |-> {"dryRun"},
   annotations |-> WRITE,
   steps |-> <<"dryRun", "call">>,
   try |-> {"dryRun", "call"},
   catch |-> "formatError",
   action |-> "",
   body |-> <<Req("name"), Req("management"), Req("enabled"), Req("vlanId")>>,
   dry |-> [method |-> "PUT", path |-> <<"/sites/", "siteId", "/networks/", "networkId">>, query |-> [fn |-> "none", args |-> <<>>], body |-> "body"],
   call |-> [verb |-> "put", path |-> <<"/sites/", "siteId", "/networks/", "networkId">>, query |-> [fn |-> "none", args |-> <<>>], body |-> "body"]],
  [name |-> "unifi_delete_network",
   description |-> <<"DESTRUCTIVE:", " Delete a network -- all clients on this network will be disconnected">>,
   inputSchema |-> {"siteId", "networkId", "force", "confirm", "dryRun"},
   optional |-> {"force", "confirm", "dryRun"},
   annotations |-> DESTRUCTIVE,
   steps |-> <<"confirm", "dryRun", "call">>,
   try |-> {"dryRun", "call"},
   catch |-> "formatError",
   action |-> "This will delete the network and disconnect all clients on it",
   body |-> <<>>,
   dry |-> [method |-> "DELETE", path |-> <<"/sites/", "siteId", "/networks/", "networkId">>, query |-> [fn |-> "force", args |-> <<"force">>], body |-> "none"],
   call |-> [verb |-> "delete", path |-> <<"/sites/", "siteId", "/networks/", "networkId">>, query |-> [fn |-> "force", args |-> <<"force">>], body |-> "none"]]
  >>

\* registerWifiTools (registerWifiTools), phase 1: every read-only tool of the group, registered before the gate.
WifiToolsPhase1 ==
  <<
  [name |-> "unifi_list_wifi",
   description |-> <<"List all WiFi broadcasts (SSIDs) at a site">>,
   inputSchema |-> {"siteId", "offset", "limit", "filter"},
   optional |-> {"offset", "limit", "filter"},
   annotations |-> READ_ONLY,
   steps |-> <<"call">>,
   try |-> {"call"},
   catch |-> "formatError",
   action |-> "",
   body |-> <<>>,
   dry |-> NoDryRun,
   call |-> [verb |-> "get", path |-> <<"/sites/", "siteId", "/wifi/broadcasts">>, query |-> [fn |-> "buildQuery", args |-> <<"offset", "limit", "filter">>], body |-> "none"]],
  [name |-> "unifi_get_wifi",
   description |-> <<"Get a specific WiFi network by ID">>,
   inputSchema |-> {"siteId", "wifiBroadcastId"},
   optional |-> {},
   annotations |-> READ_ONLY,
   steps |-> <<"call">>,
   try |-> {"call"},
   catch |-> "formatError",
   action |-> "",
   body |-> <<>>,
   dry |-> NoDryRun,
   call |-> [verb |-> "get", path |-> <<"/sites/", "siteId", "/wifi/broadcasts/", "wifiBroadcastId">>, query |-> [fn |-> "none", args |-> <<>>], body |-> "none"]]
  >>

\* registerWifiTools, phase 2: the mutating tools registered after `if (readOnly) return`.
WifiToolsPhase2 ==
  <<
  [name |-> "unifi_create_wifi",
   description |-> <<"Create a new WiFi network (SSID)">>,
   inputSchema |-> {"siteId", "name", "enabled", "type", "broadcastingFrequenciesGHz", "dryRun"},
   optional |-> {"dryRun"},
   annotations |-> WRITE_NOT_IDEMPOTENT,
   steps |-> <<"dryRun", "call">>,
   try |-> {"dryRun", "call"},
   catch |-> "formatError",
   action |-> "",
   body |-> <<Req("name"), Req("enabled"), Req("type"), MapNumber("broadcastingFrequenciesGHz")>>,
   dry |-> [method |-> "POST", path |-> <<"/sites/", "siteId", "/wifi/broadcasts">>, query |-> [fn |-> "none", args |-> <<>>], body |-> "body"],
   call |-> [verb |-> "post", path |-> <<"/sites/", "siteId", "/wifi/broadcasts">>, query |-> [fn |-> "none", args |-> <<>>], body |-> "body"]],
  [name |-> "unifi_update_wifi",
   description |-> <<"Update an existing WiFi network">>,
   inputSchema |-> {"siteId", "wifiBroadcastId", "name", "enabled", "dryRun"},
   optional |-> {"name", "enabled", "dryRun"},
   annotations |-> WRITE,
   steps |-> <<"dryRun", "call">>,
   try |-> {"dryRun", "call"},
   catch |-> "formatError",
   action |-> "",
   body |-> <<Opt("name"), Opt("enabled")>>,
   dry |-> [method |-> "PUT", path |-> <<"/sites/", "siteId", "/wifi/broadcasts/", "wifiBroadcastId">>, query |-> [fn |-> "none", args |-> <<>>], body |-> "body"],
   call |-> [verb |-> "put", path |-> <<"/sites/", "siteId", "/wifi/broadcasts/", "wifiBroadcastId">>, query |-> [fn |-> "none", args |-> <<>>], body |-> "body"]],
  [name |-> "unifi_delete_wifi",
   description |-> <<"DESTRUCTIVE:", " Delete a WiFi network -- all clients on this SSID will be disconnected">>,
   inputSchema |-> {"siteId", "wifiBroadcastId", "force", "confirm", "dryRun"},
   optional |-> {"force", "confirm", "dryRun"},
   annotations |-> DESTRUCTIVE,
   steps |-> <<"confirm", "dryRun", "call">>,
   try |-> {"dryRun", "call"},
   catch |-> "formatError",
   action |-> "This will delete the WiFi network and disconnect all clients on this SSID",
   body |-> <<>>,
   dry |-> [method |-> "DELETE", path |-> <<"/sites/", "siteId", "/wifi/broadcasts/", "wifiBroadcastId">>, query |-> [fn |-> "force", args |-> <<"force">>], body |-> "none"],
   call |-> [verb |-> "delete", path |-> <<"/sites/", "siteId", "/wifi/broadcasts/", "wifiBroadcastId">>, query |-> [fn |-> "force", args |-> <<"force">>], body |-> "none"]]
  >>

\* registerHotspotTools (hotspot.ts), phase 1: every read-only tool of the group, registered before the gate.
HotspotToolsPhase1 ==
  <<
  [name |-> "unifi_list_vouchers",
   description |-> <<"List all hotspot vouchers at a site">>,
   inputSchema |-> {"siteId", "offset", "limit", "filter"},
   optional |-> {"offset", "limit", "filter"},
   annotations |-> READ_ONLY,
   steps |-> <<"call">>,
   try |-> {"call"},
   catch |-> "formatError",
   action |-> "",
   body |-> <<>>,
   dry |-> NoDryRun,
   call |-> [verb |-> "get", path |-> <<"/sites/", "siteId", "/hotspot/vouchers">>, query |-> [fn |-> "buildQuery", args |-> <<"offset", "limit", "filter">>], body |-> "none"]],
  [name |-> "unifi_get_voucher",
   description |-> <<"Get a specific hotspot voucher by ID">>,
   inputSchema |-> {"siteId", "voucherId"},
   optional |-> {},
   annotations |-> READ_ONLY,
   steps |-> <<"call">>,
   try |-> {"call"},
   catch |-> "formatError",
   action |-> "",
   body |-> <<>>,
   dry |-> NoDryRun,
   call |-> [verb |-> "get", path |-> <<"/sites/", "siteId", "/hotspot/vouchers/", "voucherId">>, query |-> [fn |-> "none", args |-> <<>>], body |-> "none"]]
  >>

\* registerHotspotTools, phase 2: the mutating tools registered after `if (readOnly) return`.
HotspotToolsPhase2 ==
  <<
  [name |-> "unifi_create_voucher",
   description |-> <<"Create hotspot vouchers">>,
   inputSchema |-> {"siteId", "name", "timeLimitMinutes", "count", "authorizedGuestLimit", "dataUsageLimitMBytes", "rxRateLimitKbps", "txRateLimitKbps", "dryRun"},
   optional |-> {"count", "authorizedGuestLimit", "dataUsageLimitMBytes", "rxRateLimitKbps", "txRateLimitKbps", "dryRun"},
   annotations |-> WRITE_NOT_IDEMPOTENT,
   steps |-> <<"dryRun", "call">>,
   try |-> {"dryRun", "call"},
   catch |-> "formatError",
   action |-> "",
   body |-> <<Req("name"), Req("timeLimitMinutes"), Opt("count"), Opt("authorizedGuestLimit"), Opt("dataUsageLimitMBytes"), Opt("rxRateLimitKbps"), Opt("txRateLimitKbps")>>,
   dry |-> [method |-> "POST", path |-> <<"/sites/", "siteId", "/hotspot/vouchers">>, query |-> [fn |-> "none", args |-> <<>>], body |-> "body"],
   call |-> [verb |-> "post", path |-> <<"/sites/", "siteId", "/hotspot/vouchers">>, query |-> [fn |-> "none", args |-> <<>>], body |-> "body"]],
  [name |-> "unifi_delete_voucher",
   description |-> <<"DESTRUCTIVE:", " Delete a hotspot voucher">>,
   inputSchema |-> {"siteId", "voucherId", "confirm", "dryRun"},
   optional |-> {"confirm", "dryRun"},
   annotations |-> DESTRUCTIVE,
   steps |-> <<"confirm", "dryRun", "call">>,
   try |-> {"dryRun", "call"},
   catch |-> "formatError",
   action |-> "This will permanently delete the voucher",
   body |-> <<>>,
   dry |-> [method |-> "DELETE", path |-> <<"/sites/", "siteId", "/hotspot/vouchers/", "voucherId">>, query |-> [fn |-> "none", args |-> <<>>], body |-> "none"],
   call |-> [verb |-> "delete", path |-> <<"/sites/", "siteId", "/hotspot/vouchers/", "voucherId">>, query |-> [fn |-> "none", args |-> <<>>], body |-> "none"]],
  [name |-> "unifi_bulk_delete_vouchers",
   description |-> <<"DESTRUCTIVE:", " Bulk delete hotspot vouchers based on filter criteria">>,
   inputSchema |-> {"siteId", "filter", "confirm", "dryRun"},
   optional |-> {"confirm", "dryRun"},
   annotations |-> DESTRUCTIVE,
   steps |-> <<"confirm", "dryRun", "call">>,
   try |-> {"confirm", "dryRun", "call"},
   catch |-> "formatError",
   action |-> "This will delete all vouchers matching the filter",
   body |-> <<>>,
   dry |-> [method |-> "DELETE", path |-> <<"/sites/", "siteId", "/hotspot/vouchers">>, query |-> [fn |-> "buildQuery", args |-> <<"filter">>], body |-> "none"],
   call |-> [verb |-> "delete", path |-> <<"/sites/", "siteId", "/hotspot/vouchers">>, query |-> [fn |-> "buildQuery", args |-> <<"filter">>], body |-> "none"]]
  >>

\* registerFirewallTools (firewall.ts), phase 1: every read-only tool of the group, registered before the gate.
FirewallToolsPhase1 ==
  <<
  [name |-> "unifi_list_firewall_zones",
   description |-> <<"List all firewall zones at a site">>,
   inputSchema |-> {"siteId", "offset", "limit", "filter"},
   optional |-> {"offset", "limit", "filter"},
   annotations |-> READ_ONLY,
   steps |-> <<"call">>,
   try |-> {"call"},
   catch |-> "formatError",
   action |-> "",
   body |-> <<>>,
   dry |-> NoDryRun,
   call |-> [verb |-> "get", path |-> <<"/sites/", "siteId", "/firewall/zones">>, query |-> [fn |-> "buildQuery", args |-> <<"offset", "limit", "filter">>], body |-> "none"]],
  [name |-> "unifi_get_firewall_zone",
   description |-> <<"Get a specific firewall zone by ID">>,
   inputSchema |-> {"siteId", "firewallZoneId"},
   optional |-> {},
   annotations |-> READ_ONLY,
   steps |-> <<"call">>,
   try |-> {"call"},
   catch |-> "formatError",
   action |-> "",
   body |-> <<>>,
   dry |-> NoDryRun,
   call |-> [verb |-> "get", path |-> <<"/sites/", "siteId", "/firewall/zones/", "firewallZoneId">>, query |-> [fn |-> "none", args |-> <<>>], body |-> "none"]],
  [name |-> "unifi_list_firewall_policies",
   description |-> <<"List all firewall policies at a site">>,
   inputSchema |-> {"siteId", "offset", "limit", "filter"},
   optional |-> {"offset", "limit", "filter"},
   annotations |-> READ_ONLY,
   steps |-> <<"call">>,
   try |-> {"call"},
   catch |-> "formatError",
   action |-> "",
   body |-> <<>>,
   dry |-> NoDryRun,
   call |-> [verb |-> "get", path |-> <<"/sites/", "siteId", "/firewall/policies">>, query |-> [fn |-> "buildQuery", args |-> <<"offset", "limit", "filter">>], body |-> "none"]],
  [name |-> "unifi_get_firewall_policy",
   description |-> <<"Get a specific firewall policy by ID">>,
   inputSchema |-> {"siteId", "firewallPolicyId"},
   optional |-> {},
   annotations |-> READ_ONLY,
   steps |-> <<"call">>,
   try |-> {"call"},
   catch |-> "formatError",
   action |-> "",
   body |-> <<>>,
   dry |-> NoDryRun,
   call |-> [verb |-> "get", path |-> <<"/sites/", "siteId", "/firewall/policies/", "firewallPolicyId">>, query |-> [fn |-> "none", args |-> <<>>], body |-> "none"]],
  [name |-> "unifi_get_firewall_policy_ordering",
   description |-> <<"Get user-defined firewall policy ordering for a zone pair">>,
   inputSchema |-> {"siteId", "sourceFirewallZoneId", "destinationFirewallZoneId"},
   optional |-> {},
   annotations |-> READ_ONLY,
   steps |-> <<"call">>,
   try |-> {"call"},
   catch |-> "formatError",
   action |-> "",
   body |-> <<>>,
   dry |-> NoDryRun,
   call |-> [verb |-> "get", path |-> <<"/sites/", "siteId", "/firewall/policies/ordering">>, query |-> [fn |-> "zonePair", args |-> <<"sourceFirewallZoneId", "destinationFirewallZoneId">>], body |-> "none"]]
  >>

\* registerFirewallTools, phase 2: the mutating tools registered after `if (readOnly) return`.
FirewallToolsPhase2 ==
  <<
  [name |-> "unifi_create_firewall_zone",
   description |-> <<"Create a new custom firewall zone">>,
   inputSchema |-> {"siteId", "name", "networkIds", "dryRun"},
   optional |-> {"dryRun"},
   annotations |-> WRITE_NOT_IDEMPOTENT,
   steps |-> <<"dryRun", "call">>,
   try |-> {"dryRun", "call"},
   catch |-> "formatError",
   action |-> "",
   body |-> <<Req("name"), Req("networkIds")>>,
   dry |-> [method |-> "POST", path |-> <<"/sites/", "siteId", "/firewall/zones">>, query |-> [fn |-> "none", args |-> <<>>], body |-> "body"],
   call |-> [verb |-> "post", path |-> <<"/sites/", "siteId", "/firewall/zones">>, query |-> [fn |-> "none", args |-> <<>>], body |-> "body"]],
  [name |-> "unifi_update_firewall_zone",
   description |-> <<"Update a firewall zone">>,
   inputSchema |-> {"siteId", "firewallZoneId", "name", "networkIds", "dryRun"},
   optional |-> {"dryRun"},
   annotations |-> WRITE,
   steps |-> <<"dryRun", "call">>,
   try |-> {"dryRun", "call"},
   catch |-> "formatError",
   action |-> "",
   body |-> <<Req("name"), Req("networkIds")>>,
   dry |-> [method |-> "PUT", path |-> <<"/sites/", "siteId", "/firewall/zones/", "firewallZoneId">>, query |-> [fn |-> "none", args |-> <<>>], body |-> "body"],
   call |-> [verb |-> "put", path |-> <<"/sites/", "siteId", "/firewall/zones/", "firewallZoneId">>, query |-> [fn |-> "none", args |-> <<>>], body |-> "body"]],
  [name |-> "unifi_delete_firewall_zone",
   description |-> <<"DESTRUCTIVE:", " Delete a custom firewall zone">>,
   inputSchema |-> {"siteId", "firewallZoneId", "confirm", "dryRun"},
   optional |-> {"confirm", "dryRun"},
   annotations |-> DESTRUCTIVE,
   steps |-> <<"confirm", "dryRun", "call">>,
   try |-> {"dryRun", "call"},
   catch |-> "formatError",
   action |-> "This will delete the firewall zone",
   body |-> <<>>,
   dry |-> [method |-> "DELETE", path |-> <<"/sites/", "siteId", "/firewall/zones/", "firewallZoneId">>, query |-> [fn |-> "none", args |-> <<>>], body |-> "empty"],
   call |-> [verb |-> "delete", path |-> <<"/sites/", "siteId", "/firewall/zones/", "firewallZoneId">>, query |-> [fn |-> "none", args |-> <<>>], body |-> "none"]],
  [name |-> "unifi_create_firewall_policy",
   description |-> <<"Create a new firewall policy">>,
   inputSchema |-> {"siteId", "policy", "dryRun"},
   optional |-> {"dryRun"},
   annotations |-> WRITE_NOT_IDEMPOTENT,
   steps |-> <<"dryRun", "call">>,
   try |-> {"dryRun", "call"},
   catch |-> "formatError",
   action |-> "",
   body |-> <<Param("policy")>>,
   dry |-> [method |-> "POST", path |-> <<"/sites/", "siteId", "/firewall/policies">>, query |-> [fn |-> "none", args |-> <<>>], body |-> "body"],
   call |-> [verb |-> "post", path |-> <<"/sites/", "siteId", "/firewall/policies">>, query |-> [fn |-> "none", args |-> <<>>], body |-> "body"]],
  [name |-> "unifi_update_firewall_policy",
   description |-> <<"Update a firewall policy">>,
   inputSchema |-> {"siteId", "firewallPolicyId", "policy", "dryRun"},
   optional |-> {"dryRun"},
   annotations |-> WRITE,
   steps |-> <<"dryRun", "call">>,
   try |-> {"dryRun", "call"},
   catch |-> "formatError",
   action |-> "",
   body |-> <<Param("policy")>>,
   dry |-> [method |-> "PUT", path |-> <<"/sites/", "siteId", "/firewall/policies/", "firewallPolicyId">>, query |-> [fn |-> "none", args |-> <<>>], body |-> "body"],
   call |-> [verb |-> "put", path |-> <<"/sites/", "siteId", "/firewall/policies/", "firewallPolicyId">>, query |-> [fn |-> "none", args |-> <<>>], body |-> "body"]],
  [name |-> "unifi_patch_firewall_policy",
   description |-> <<"Partially update a firewall policy (e.g. toggle logging)">>,
   inputSchema |-> {"siteId", "firewallPolicyId", "policy", "dryRun"},
   optional |-> {"dryRun"},
   annotations |-> WRITE,
   steps |-> <<"dryRun", "call">>,
   try |-> {"dryRun", "call"},
   catch |-> "formatError",
   action |-> "",
   body |-> <<Param("policy")>>,
   dry |-> [method |-> "PATCH", path |-> <<"/sites/", "siteId", "/firewall/policies/", "firewallPolicyId">>, query |-> [fn |-> "none", args |-> <<>>], body |-> "body"],
   call |-> [verb |-> "patch", path |-> <<"/sites/", "siteId", "/firewall/policies/", "firewallPolicyId">>, query |-> [fn |-> "none", args |-> <<>>], body |-> "body"]],
  [name |-> "unifi_delete_firewall_policy",
   description |-> <<"DESTRUCTIVE:", " Delete a firewall policy">>,
   inputSchema |-> {"siteId", "firewallPolicyId", "confirm", "dryRun"},
   optional |-> {"confirm", "dryRun"},
   annotations |-> DESTRUCTIVE,
   steps |-> <<"confirm", "dryRun", "call">>,
   try |-> {"dryRun", "call"},
   catch |-> "formatError",
   action |-> "This will delete the firewall policy",
   body |-> <<>>,
   dry |-> [method |-> "DELETE", path |-> <<"/sites/", "siteId", "/firewall/policies/", "firewallPolicyId">>, query |-> [fn |-> "none", args |-> <<>>], body |-> "empty"],
   call |-> [verb |-> "delete", path |-> <<"/sites/", "siteId", "/firewall/policies/", "firewallPolicyId">>, query |-> [fn |-> "none", args |-> <<>>], body |-> "none"]],
  [name |-> "unifi_reorder_firewall_policies",
   description |-> <<"Reorder user-defined firewall policies for a zone pair">>,
   inputSchema |-> {"siteId", "sourceFirewallZoneId", "destinationFirewallZoneId", "orderedFirewallPolicyIds", "dryRun"},
   optional |-> {"dryRun"},
   annotations |-> WRITE,
   steps |-> <<"dryRun", "call">>,
   try |-> {"dryRun", "call"},
   catch |-> "formatError",
   action |-> "",
   body |-> <<Req("orderedFirewallPolicyIds")>>,
   dry |-> [method |-> "PUT", path |-> <<"/sites/", "siteId", "/firewall/policies/ordering">>, query |-> [fn |-> "zonePair", args |-> <<"sourceFirewallZoneId", "destinationFirewallZoneId">>], body |-> "body"],
   call |-> [verb |-> "put", path |-> <<"/sites/", "siteId", "/firewall/policies/ordering">>, query |-> [fn |-> "zonePair", args |-> <<"sourceFirewallZoneId", "destinationFirewallZoneId">>], body |-> "body"]]
  >>

\* registerAclTools (acl.ts), phase 1: every read-only tool of the group, registered before the gate.
AclToolsPhase1 ==
  <<
  [name |-> "unifi_list_acl_rules",
   description |-> <<"List all ACL (firewall) rules at a site">>,
   inputSchema |-> {"siteId", "offset", "limit", "filter"},
   optional |-> {"offset", "limit", "filter"},
   annotations |-> READ_ONLY,
   steps |-> <<"call">>,
   try |-> {"call"},
   catch |-> "formatError",
   action |-> "",
   body |-> <<>>,
   dry |-> NoDryRun,
   call |-> [verb |-> "get", path |-> <<"/sites/", "siteId", "/acl-rules">>, query |-> [fn |-> "buildQuery", args |-> <<"offset", "limit", "filter">>], body |-> "none"]],
  [name |-> "unifi_get_acl_rule",
   description |-> <<"Get a specific ACL rule by ID">>,
   inputSchema |-> {"siteId", "aclRuleId"},
   optional |-> {},
   annotations |-> READ_ONLY,
   steps |-> <<"call">>,
   try |-> {"call"},
   catch |-> "formatError",
   action |-> "",
   body |-> <<>>,
   dry |-> NoDryRun,
   call |-> [verb |-> "get", path |-> <<"/sites/", "siteId", "/acl-rules/", "aclRuleId">>, query |-> [fn |-> "none", args |-> <<>>], body |-> "none"]],
  [name |-> "unifi_get_acl_rule_ordering",
   description |-> <<"Get user-defined ACL rule ordering">>,
   inputSchema |-> {"siteId"},
   optional |-> {},
   annotations |-> READ_ONLY,
   steps |-> <<"call">>,
   try |-> {"call"},
   catch |-> "formatError",
   action |-> "",
   body |-> <<>>,
   dry |-> NoDryRun,
   call |-> [verb |-> "get", path |-> <<"/sites/", "siteId", "/acl-rules/ordering">>, query |-> [fn |-> "none", args |-> <<>>], body |-> "none"]]
  >>

\* registerAclTools, phase 2: the mutating tools registered after `if (readOnly) return`.
AclToolsPhase2 ==
  <<
  [name |-> "unifi_create_acl_rule",
   description |-> <<"Create a new ACL (firewall) rule">>,
   inputSchema |-> {"siteId", "type", "name", "enabled", "action", "description", "protocolFilter", "dryRun"},
   optional |-> {"description", "protocolFilter", "dryRun"},
   annotations |-> WRITE_NOT_IDEMPOTENT,
   steps |-> <<"dryRun", "call">>,
   try |-> {"dryRun", "call"},
   catch |-> "formatError",
   action |-> "",
   body |-> <<Req("type"), Req("name"), Req("enabled"), Req("action"), Opt("description"), Opt("protocolFilter")>>,
   dry |-> [method |-> "POST", path |-> <<"/sites/", "siteId", "/acl-rules">>, query |-> [fn |-> "none", args |-> <<>>], body |-> "body"],
   call |-> [verb |-> "post", path |-> <<"/sites/", "siteId", "/acl-rules">>, query |-> [fn |-> "none", args |-> <<>>], body |-> "body"]],
  [name |-> "unifi_update_acl_rule",
   description |-> <<"Update an ACL rule">>,
   inputSchema |-> {"siteId", "aclRuleId", "rule", "dryRun"},
   optional |-> {"dryRun"},
   annotations |-> WRITE,
   steps |-> <<"dryRun", "call">>,
   try |-> {"dryRun", "call"},
   catch |-> "formatError",
   action |-> "",
   body |-> <<Param("rule")>>,
   dry |-> [method |-> "PUT", path |-> <<"/sites/", "siteId", "/acl-rules/", "aclRuleId">>, query |-> [fn |-> "none", args |-> <<>>], body |-> "body"],
   call |-> [verb |-> "put", path |-> <<"/sites/", "siteId", "/acl-rules/", "aclRuleId">>, query |-> [fn |-> "none", args |-> <<>>], body |-> "body"]],
  [name |-> "unifi_delete_acl_rule",
   description |-> <<"DESTRUCTIVE:", " Delete an ACL rule">>,
   inputSchema |-> {"siteId", "aclRuleId", "confirm", "dryRun"},
   optional |-> {"confirm", "dryRun"},
   annotations |-> DESTRUCTIVE,
   steps |-> <<"confirm", "dryRun", "call">>,
   try |-> {"dryRun", "call"},
   catch |-> "formatError",
   action |-> "This will delete the ACL rule",
   body |-> <<>>,
   dry |-> [method |-> "DELETE", path |-> <<"/sites/", "siteId", "/acl-rules/", "aclRuleId">>, query |-> [fn |-> "none", args |-> <<>>], body |-> "empty"],
   call |-> [verb |-> "delete", path |-> <<"/sites/", "siteId", "/acl-rules/", "aclRuleId">>, query |-> [fn |-> "none", args |-> <<>>], body |-> "none"]],
  [name |-> "unifi_reorder_acl_rules",
   description |-> <<"Reorder user-defined ACL rules">>,
   inputSchema |-> {"siteId", "orderedAclRuleIds", "dryRun"},
   optional |-> {"dryRun"},
   annotations |-> WRITE,
   steps |-> <<"dryRun", "call">>,
   try |-> {"dryRun", "call"},
   catch |-> "formatError",
   action |-> "",
   body |-> <<Req("orderedAclRuleIds")>>,
   dry |-> [method |-> "PUT", path |-> <<"/sites/", "siteId", "/acl-rules/ordering">>, query |-> [fn |-> "none", args |-> <<>>], body |-> "body"],
   call |-> [verb |-> "put", path |-> <<"/sites/", "siteId", "/acl-rules/ordering">>, query |-> [fn |-> "none", args |-> <<>>], body |-> "body"]]
  >>

\* registerDnsPolicyTools (dns-policies.ts), phase 1: every read-only tool of the group, registered before the gate.
DnsPolicyToolsPhase1 ==
  <<
  [name |-> "unifi_list_dns_policies",
   description |-> <<"List all DNS policies at a site">>,
   inputSchema |-> {"siteId", "offset", "limit", "filter"},
   optional |-> {"offset", "limit", "filter"},
   annotations |-> READ_ONLY,
   steps |-> <<"call">>,
   try |-> {"call"},
   catch |-> "formatError",
   action |-> "",
   body |-> <<>>,
   dry |-> NoDryRun,
   call |-> [verb |-> "get", path |-> <<"/sites/", "siteId", "/dns/policies">>, query |-> [fn |-> "buildQuery", args |-> <<"offset", "limit", "filter">>], body |-> "none"]],
  [name |-> "unifi_get_dns_policy",
   description |-> <<"Get a specific DNS policy by ID">>,
   inputSchema |-> {"siteId", "dnsPolicyId"},
   optional |-> {},
   annotations |-> READ_ONLY,
   steps |-> <<"call">>,
   try |-> {"call"},
   catch |-> "formatError",
   action |-> "",
   body |-> <<>>,
   dry |-> NoDryRun,
   call |-> [verb |-> "get", path |-> <<"/sites/", "siteId", "/dns/policies/", "dnsPolicyId">>, query |-> [fn |-> "none", args |-> <<>>], body |-> "none"]]
  >>

\* registerDnsPolicyTools, phase 2: the mutating tools registered after `if (readOnly) return`.
DnsPolicyToolsPhase2 ==
  <<
  [name |-> "unifi_create_dns_policy",
   description |-> <<"Create a new DNS policy">>,
   inputSchema |-> {"siteId", "policy", "dryRun"},
   optional |-> {"dryRun"},
   annotations |-> WRITE_NOT_IDEMPOTENT,
   steps |-> <<"dryRun", "call">>,
   try |-> {"dryRun", "call"},
   catch |-> "formatError",
   action |-> "",
   body |-> <<Param("policy")>>,
   dry |-> [method |-> "POST", path |-> <<"/sites/", "siteId", "/dns/policies">>, query |-> [fn |-> "none", args |-> <<>>], body |-> "body"],
   call |-> [verb |-> "post", path |-> <<"/sites/", "siteId", "/dns/policies">>, query |-> [fn |-> "none", args |-> <<>>], body |-> "body"]],
  [name |-> "unifi_update_dns_policy",
   description |-> <<"Update a DNS policy">>,
   inputSchema |-> {"siteId", "dnsPolicyId", "policy", "dryRun"},
   optional |-> {"dryRun"},
   annotations |-> WRITE,
   steps |-> <<"dryRun", "call">>,
   try |-> {"dryRun", "call"},
   catch |-> "formatError",
   action |-> "",
   body |-> <<Param("policy")>>,
   dry |-> [method |-> "PUT", path |-> <<"/sites/", "siteId", "/dns/policies/", "dnsPolicyId">>, query |-> [fn |-> "none", args |-> <<>>], body |-> "body"],
   call |-> [verb |-> "put", path |-> <<"/sites/", "siteId", "/dns/policies/", "dnsPolicyId">>, query |-> [fn |-> "none", args |-> <<>>], body |-> "body"]],
  [name |-> "unifi_delete_dns_policy",
   description |-> <<"DESTRUCTIVE:", " Delete a DNS policy">>,
   inputSchema |-> {"siteId", "dnsPolicyId", "confirm", "dryRun"},
   optional |-> {"confirm", "dryRun"},
   annotations |-> DESTRUCTIVE,
   steps |-> <<"confirm", "dryRun", "call">>,
   try |-> {"dryRun", "call"},
   catch |-> "formatError",
   action |-> "This will delete the DNS policy",
   body |-> <<>>,
   dry |-> [method |-> "DELETE", path |-> <<"/sites/", "siteId", "/dns/policies/", "dnsPolicyId">>, query |-> [fn |-> "none", args |-> <<>>], body |-> "empty"],
   call |-> [verb |-> "delete", path |-> <<"/sites/", "siteId", "/dns/policies/", "dnsPolicyId">>, query |-> [fn |-> "none", args |-> <<>>], body |-> "none"]]
  >>

\* registerTrafficMatchingTools (hotspot.ts), phase 1: every read-only tool of the group, registered before the gate.
TrafficMatchingToolsPhase1 ==
  <<
  [name |-> "unifi_list_traffic_matching_lists",
   description |-> <<"List all traffic matching lists at a site (port groups, IP groups)">>,
   inputSchema |-> {"siteId", "offset", "limit", "filter"},
   optional |-> {"offset", "limit", "filter"},
   annotations |-> READ_ONLY,
   steps |-> <<"call">>,
   try |-> {"call"},
   catch |-> "formatError",
   action |-> "",
   body |-> <<>>,
   dry |-> NoDryRun,
   call |-> [verb |-> "get", path |-> <<"/sites/", "siteId", "/traffic-matching-lists">>, query |-> [fn |-> "buildQuery", args |-> <<"offset", "limit", "filter">>], body |-> "none"]],
  [name |-> "unifi_get_traffic_matching_list",
   description |-> <<"Get a specific traffic matching list by ID">>,
   inputSchema |-> {"siteId", "trafficMatchingListId"},
   optional |-> {},
   annotations |-> READ_ONLY,
   steps |-> <<"call">>,
   try |-> {"call"},
   catch |-> "formatError",
   action |-> "",
   body |-> <<>>,
   dry |-> NoDryRun,
   call |-> [verb |-> "get", path |-> <<"/sites/", "siteId", "/traffic-matching-lists/", "trafficMatchingListId">>, query |-> [fn |-> "none", args |-> <<>>], body |-> "none"]]
  >>

\* registerTrafficMatchingTools, phase 2: the mutating tools registered after `if (readOnly) return`.
TrafficMatchingToolsPhase2 ==
  <<
  [name |-> "unifi_create_traffic_matching_list",
   description |-> <<"Create a new traffic matching list">>,
   inputSchema |-> {"siteId", "type", "name", "items", "dryRun"},
   optional |-> {"dryRun"},
   annotations |-> WRITE_NOT_IDEMPOTENT,
   steps |-> <<"dryRun", "call">>,
   try |-> {"dryRun", "call"},
   catch |-> "formatError",
   action |-> "",
   body |-> <<Req("type"), Req("name"), Req("items")>>,
   dry |-> [method |-> "POST", path |-> <<"/sites/", "siteId", "/traffic-matching-lists">>, query |-> [fn |-> "none", args |-> <<>>], body |-> "body"],
   call |-> [verb |-> "post", path |-> <<"/sites/", "siteId", "/traffic-matching-lists">>, query |-> [fn |-> "none", args |-> <<>>], body |-> "body"]],
  [name |-> "unifi_update_traffic_matching_list",
   description |-> <<"Update a traffic matching list">>,
   inputSchema |-> {"siteId", "trafficMatchingListId", "type", "name", "items", "dryRun"},
   optional |-> {"dryRun"},
   annotations |-> WRITE,
   steps |-> <<"dryRun", "call">>,
   try |-> {"dryRun", "call"},
   catch |-> "formatError",
   action |-> "",
   body |-> <<Req("type"), Req("name"), Req("items")>>,
   dry |-> [method |-> "PUT", path |-> <<"/sites/", "siteId", "/traffic-matching-lists/", "trafficMatchingListId">>, query |-> [fn |-> "none", args |-> <<>>], body |-> "body"],
   call |-> [verb |-> "put", path |-> <<"/sites/", "siteId", "/traffic-matching-lists/", "trafficMatchingListId">>, query |-> [fn |-> "none", args |-> <<>>], body |-> "body"]],
  [name |-> "unifi_delete_traffic_matching_list",
   description |-> <<"DESTRUCTIVE:", " Delete a traffic matching list">>,
   inputSchema |-> {"siteId", "trafficMatchingListId", "confirm", "dryRun"},
   optional |-> {"confirm", "dryRun"},
   annotations |-> DESTRUCTIVE,
   steps |-> <<"confirm", "dryRun", "call">>,
   try |-> {"dryRun", "call"},
   catch |-> "formatError",
   action |-> "This will delete the traffic matching list",
   body |-> <<>>,
   dry |-> [method |-> "DELETE", path |-> <<"/sites/", "siteId", "/traffic-matching-lists/", "trafficMatchingListId">>, query |-> [fn |-> "none", args |-> <<>>], body |-> "empty"],
   call |-> [verb |-> "delete", path |-> <<"/sites/", "siteId", "/traffic-matching-lists/", "trafficMatchingListId">>, query |-> [fn |-> "none", args |-> <<>>], body |-> "none"]]
  >>

\* registerSupportingTools (hotspot.ts), phase 1: every read-only tool of the group, registered before the gate.
SupportingToolsPhase1 ==
  <<
  [name |-> "unifi_list_wans",
   description |-> <<"List all WAN interfaces at a site">>,
   inputSchema |-> {"siteId", "offset", "limit"},
   optional |-> {"offset", "limit"},
   annotations |-> READ_ONLY,
   steps |-> <<"call">>,
   try |-> {"call"},
   catch |-> "formatError",
   action |-> "",
   body |-> <<>>,
   dry |-> NoDryRun,
   call |-> [verb |-> "get", path |-> <<"/sites/", "siteId", "/wans">>, query |-> [fn |-> "buildQuery", args |-> <<"offset", "limit">>], body |-> "none"]],
  [name |-> "unifi_list_vpn_tunnels",
   description |-> <<"List all site-to-site VPN tunnels at a site">>,
   inputSchema |-> {"siteId", "offset", "limit", "filter"},
   optional |-> {"offset", "limit", "filter"},
   annotations |-> READ_ONLY,
   steps |-> <<"call">>,
   try |-> {"call"},
   catch |-> "formatError",
   action |-> "",
   body |-> <<>>,
   dry |-> NoDryRun,
   call |-> [verb |-> "get", path |-> <<"/sites/", "siteId", "/vpn/site-to-site-tunnels">>, query |-> [fn |-> "buildQuery", args |-> <<"offset", "limit", "filter">>], body |-> "none"]],
  [name |-> "unifi_list_vpn_servers",
   description |-> <<"List all VPN servers at a site">>,
   inputSchema |-> {"siteId", "offset", "limit", "filter"},
   optional |-> {"offset", "limit", "filter"},
   annotations |-> READ_ONLY,
   steps |-> <<"call">>,
   try |-> {"call"},
   catch |-> "formatError",
   action |-> "",
   body |-> <<>>,
   dry |-> NoDryRun,
   call |-> [verb |-> "get", path |-> <<"/sites/", "siteId", "/vpn/servers">>, query |-> [fn |-> "buildQuery", args |-> <<"offset", "limit", "filter">>], body |-> "none"]],
  [name |-> "unifi_list_radius_profiles",
   description |-> <<"List all RADIUS profiles at a site">>,
   inputSchema |-> {"siteId", "offset", "limit", "filter"},
   optional |-> {"offset", "limit", "filter"},
   annotations |-> READ_ONLY,
   steps |-> <<"call">>,
   try |-> {"call"},
   catch |-> "formatError",
   action |-> "",
   body |-> <<>>,
   dry |-> NoDryRun,
   call |-> [verb |-> "get", path |-> <<"/sites/", "siteId", "/radius/profiles">>, query |-> [fn |-> "buildQuery", args |-> <<"offset", "limit", "filter">>], body |-> "none"]],
  [name |-> "unifi_list_device_tags",
   description |-> <<"List all device tags at a site (used for WiFi broadcast assignments)">>,
   inputSchema |-> {"siteId", "offset", "limit", "filter"},
   optional |-> {"offset", "limit", "filter"},
   annotations |-> READ_ONLY,
   steps |-> <<"call">>,
   try |-> {"call"},
   catch |-> "formatError",
   action |-> "",
   body |-> <<>>,
   dry |-> NoDryRun,
   call |-> [verb |-> "get", path |-> <<"/sites/", "siteId", "/device-tags">>, query |-> [fn |-> "buildQuery", args |-> <<"offset", "limit", "filter">>], body |-> "none"]],
  [name |-> "unifi_list_dpi_categories",
   description |-> <<"List all DPI (Deep Packet Inspection) categories for traffic identification">>,
   inputSchema |-> {"offset", "limit", "filter"},
   optional |-> {"offset", "limit", "filter"},
   annotations |-> READ_ONLY,
   steps |-> <<"call">>,
   try |-> {"call"},
   catch |-> "formatError",
   action |-> "",
   body |-> <<>>,
   dry |-> NoDryRun,
   call |-> [verb |-> "get", path |-> <<"/dpi/categories">>, query |-> [fn |-> "buildQuery", args |-> <<"offset", "limit", "filter">>], body |-> "none"]],
  [name |-> "unifi_list_dpi_applications",
   description |-> <<"List all DPI applications for traffic identification and filtering">>,
   inputSchema |-> {"offset", "limit", "filter"},
   optional |-> {"offset", "limit", "filter"},
   annotations |-> READ_ONLY,
   steps |-> <<"call">>,
   try |-> {"call"},
   catch |-> "formatError",
   action |-> "",
   body |-> <<>>,
   dry |-> NoDryRun,
   call |-> [verb |-> "get", path |-> <<"/dpi/applications">>, query |-> [fn |-> "buildQuery", args |-> <<"offset", "limit", "filter">>], body |-> "none"]],
  [name |-> "unifi_list_countries",
   description |-> <<"List all countries/regions for geo-based rules (ISO codes and names)">>,
   inputSchema |-> {"offset", "limit", "filter"},
   optional |-> {"offset", "limit", "filter"},
   annotations |-> READ_ONLY,
   steps |-> <<"call">>,
   try |-> {"call"},
   catch |-> "formatError",
   action |-> "",
   body |-> <<>>,
   dry |-> NoDryRun,
   call |-> [verb |-> "get", path |-> <<"/countries">>, query |-> [fn |-> "buildQuery", args |-> <<"offset", "limit", "filter">>], body |-> "none"]]
  >>
-----------------------------------------------------------------------------
(* The registrars.  Each returns the tools it registers, in order, for the *)
(* mode flag it is given.                                                  *)

registerSystemTools == SystemToolsPhase1

registerSiteTools == SiteToolsPhase1

registerDeviceTools(readOnlyFlag) ==
  DeviceToolsPhase1 \o (IF readOnlyFlag THEN <<>> ELSE DeviceToolsPhase2)

\* registerClientTools without its `if (readOnly) return`.
registerClientToolsUngated(readOnlyFlag) == ClientToolsPhase1 \o ClientToolsPhase2

registerClientTools(readOnlyFlag) ==
  ClientToolsPhase1 \o (IF readOnlyFlag THEN <<>> ELSE ClientToolsPhase2)

\* registerNetworkTools testing the flag twice, with unifi_create_network
\* registered between the read-only tools.
registerNetworkToolsTwoGates(readOnlyFlag) ==
  <<NetworkToolsPhase1[1]>>
    \o (IF readOnlyFlag THEN <<>> ELSE <<NetworkToolsPhase2[1]>>)
    \o Tail(NetworkToolsPhase1)
    \o (IF readOnlyFlag THEN <<>> ELSE Tail(NetworkToolsPhase2))

registerNetworkTools(readOnlyFlag) ==
  NetworkToolsPhase1 \o (IF readOnlyFlag THEN <<>> ELSE NetworkToolsPhase2)

registerWifiTools(readOnlyFlag) ==
  WifiToolsPhase1 \o (IF readOnlyFlag THEN <<>> ELSE WifiToolsPhase2)

\* registerHotspotTools with its `if (readOnly) return` one tool too early.
registerHotspotToolsEarlyGate(readOnlyFlag) ==
  <<HotspotToolsPhase1[1]>>
    \o (IF readOnlyFlag THEN <<>> ELSE <<HotspotToolsPhase1[2]>> \o HotspotToolsPhase2)

registerHotspotTools(readOnlyFlag) ==
  HotspotToolsPhase1 \o (IF readOnlyFlag THEN <<>> ELSE HotspotToolsPhase2)

registerFirewallTools(readOnlyFlag) ==
  FirewallToolsPhase1 \o (IF readOnlyFlag THEN <<>> ELSE FirewallToolsPhase2)

\* registerAclTools without its `if (readOnly) return`.
registerAclToolsUngated(readOnlyFlag) == AclToolsPhase1 \o AclToolsPhase2

registerAclTools(readOnlyFlag) ==
  AclToolsPhase1 \o (IF readOnlyFlag THEN <<>> ELSE AclToolsPhase2)

\* registerDnsPolicyTools with unifi_get_dns_policy registered after the gate.
registerDnsPolicyToolsReadAfterGate(readOnlyFlag) ==
  <<DnsPolicyToolsPhase1[1]>>
    \o (IF readOnlyFlag THEN <<>>
                        ELSE <<DnsPolicyToolsPhase1[2]>> \o DnsPolicyToolsPhase2)

registerDnsPolicyTools(readOnlyFlag) ==
  DnsPolicyToolsPhase1 \o (IF readOnlyFlag THEN <<>> ELSE DnsPolicyToolsPhase2)

registerTrafficMatchingTools(readOnlyFlag) ==
  TrafficMatchingToolsPhase1
    \o (IF readOnlyFlag THEN <<>> ELSE TrafficMatchingToolsPhase2)

\* registerSupportingTools with its first registration repeated at its end.
registerSupportingToolsTwice ==
  SupportingToolsPhase1 \o <<SupportingToolsPhase1[1]>>

registerSupportingTools == SupportingToolsPhase1

\* tools/index.ts: the groups in the order registerAllTools calls them.
GroupOrder ==
  <<"system", "sites", "devices", "clients", "networks", "wifi", "hotspot",
    "firewall", "acl", "dns-policies", "traffic-matching", "supporting">>

\* registerAllTools calling registerFirewallTools(server, client) without
\* the flag, so that the group sees its default.
GroupToolsFirewallUnflagged(group, readOnlyFlag) ==
  CASE group = "system" -> registerSystemTools
    [] group = "sites" -> registerSiteTools
    [] group = "devices" -> registerDeviceTools(readOnlyFlag)
    [] group = "clients" -> registerClientTools(readOnlyFlag)
    [] group = "networks" -> registerNetworkTools(readOnlyFlag)
    [] group = "wifi" -> registerWifiTools(readOnlyFlag)
    [] group = "hotspot" -> registerHotspotTools(readOnlyFlag)
    [] group = "firewall" -> registerFirewallTools(FALSE)
    [] group = "acl" -> registerAclTools(readOnlyFlag)
    [] group = "dns-policies" -> registerDnsPolicyTools(readOnlyFlag)
    [] group = "traffic-matching" -> registerTrafficMatchingTools(readOnlyFlag)
    [] group = "supporting" -> registerSupportingTools

GroupTools(group, readOnlyFlag) ==
  CASE group = "system" -> registerSystemTools
    [] group = "sites" -> registerSiteTools
    [] group = "devices" -> registerDeviceTools(readOnlyFlag)
    [] group = "clients" -> registerClientTools(readOnlyFlag)
    [] group = "networks" -> registerNetworkTools(readOnlyFlag)
    [] group = "wifi" -> registerWifiTools(readOnlyFlag)
    [] group = "hotspot" -> registerHotspotTools(readOnlyFlag)
    [] group = "firewall" -> registerFirewallTools(readOnlyFlag)
    [] group = "acl" -> registerAclTools(readOnlyFlag)
    [] group = "dns-policies" -> registerDnsPolicyTools(readOnlyFlag)
    [] group = "traffic-matching" -> registerTrafficMatchingTools(readOnlyFlag)
    [] group = "supporting" -> registerSupportingTools

RECURSIVE RegisterGroups(_, _)
RegisterGroups(i, readOnlyFlag) ==
  IF i > Len(GroupOrder) THEN <<>>
  ELSE GroupTools(GroupOrder[i], readOnlyFlag) \o RegisterGroups(i + 1, readOnlyFlag)

\* Everything one run of registerAllTools(server, client, readOnly) registers.
registerAllTools(readOnlyFlag) == RegisterGroups(1, readOnlyFlag)

\* The names of the server.registerTool calls made, in order.
ToolNames(defs) == [i \in 1..Len(defs) |-> defs[i].name]

Names(tools) == {tools[i].name : i \in 1..Len(tools)}

\* Every server.registerTool call of the source.  The arguments of a call
\* are literals, so the name of a registered tool determines its config and
\* its handler: the catalogue record of that name.
AllTools == registerAllTools(FALSE)

ToolIndex ==
  [name \in Names(AllTools) |->
     CHOOSE i \in 1..Len(AllTools) : AllTools[i].name = name]

ToolNamed(name) == AllTools[ToolIndex[name]]

\* A registration whose input shape leaves out the dryRun field.
ConfigOfWithoutDryRun(def) ==
  [name |-> def.name, description |-> def.description,
   inputSchema |-> def.inputSchema \ {"dryRun"}, annotations |-> def.annotations]

\* The config object server.registerTool receives with the name.
ConfigOf(def) ==
  [name |-> def.name, description |-> def.description,
   inputSchema |-> def.inputSchema, annotations |-> def.annotations]

Catalogue == [name \in Names(AllTools) |-> ConfigOf(ToolNamed(name))]

\* The config a registered tool was registered with.
Registered(name) == Catalogue[name]

-----------------------------------------------------------------------------
(* The handlers.                                                           *)

Field(input, k) == IF k \in DOMAIN input THEN input[k] ELSE Undefined

\* `${x}` in a template literal.
Interpolate(v) ==
  CASE v.t = "string" -> v.s
    [] v.t = "number" -> v.n
    [] v.t = "boolean" -> IF v.b THEN "true" ELSE "false"
    [] OTHER -> v.t

RECURSIVE Template(_, _, _)
Template(parts, input, i) ==
  IF i > Len(parts) THEN ""
  ELSE (IF parts[i] \in DOMAIN input THEN Interpolate(input[parts[i]]) ELSE parts[i])
         \o Template(parts, input, i + 1)

\* The query string a handler appends to its path.
QueryString(query, input) ==
  CASE query.fn = "none" -> ""
    [] query.fn = "buildQuery" ->
         buildQuery(Obj([i \in 1..Len(query.args) |->
                           <<query.args[i], Field(input, query.args[i])>>]))
    [] query.fn = "force" ->
         IF Truthy(Field(input, "force")) THEN "?force=true" ELSE ""
    [] query.fn = "zonePair" ->
         "?sourceFirewallZoneId="
           \o encodeURIComponent(Field(input, "sourceFirewallZoneId").s)
           \o "&destinationFirewallZoneId="
           \o encodeURIComponent(Field(input, "destinationFirewallZoneId").s)

\* Number(s) for the strings of a frequency list.
Number(v) == Num(IF v.s \in {"2.4", "5", "6"} THEN v.s ELSE "NaN")

\* The body a handler builds before its dry-run check.
RECURSIVE BuildBody(_, _, _, _)
BuildBody(builder, input, i, kv) ==
  IF i > Len(builder) THEN Obj(kv)
  ELSE LET f == builder[i]
           v == Field(input, f.key)
       IN CASE f.mode = "shorthand" ->
                 BuildBody(builder, input, i + 1, SetKey(kv, f.key, v))
            [] f.mode = "const" ->
                 BuildBody(builder, input, i + 1, SetKey(kv, f.key, f.val))
            [] f.mode = "ifDefined" ->
                 BuildBody(builder, input, i + 1,
                           IF v # Undefined THEN SetKey(kv, f.key, v) ELSE kv)
            [] f.mode = "mapNumber" ->
                 BuildBody(builder, input, i + 1,
                           SetKey(kv, f.key,
                                  Arr([j \in 1..Len(v.items) |-> Number(v.items[j])])))
            [] f.mode = "param" -> v

HandlerBody(def, input) ==
  IF def.body = <<>> THEN Undefined ELSE BuildBody(def.body, input, 1, <<>>)

\* The third argument of formatDryRun at the handler's dry-run return.
DryRunBody(def, input) ==
  CASE def.dry.body = "none" -> Undefined
    [] def.dry.body = "empty" -> Obj(<<>>)
    [] def.dry.body = "body" -> HandlerBody(def, input)

\* The dry-run path without the query string the call appends.
DryRunPathWithoutQuery(def, input) == Template(def.dry.path, input, 1)

DryRunPath(def, input) ==
  Template(def.dry.path, input, 1) \o QueryString(def.dry.query, input)

\* The arguments of the handler's client call.
CallBody(def, input) ==
  CASE def.call.body = "none" -> Undefined
    [] def.call.body = "body" -> HandlerBody(def, input)

CallPath(def, input) ==
  Template(def.call.path, input, 1) \o QueryString(def.call.query, input)

\* A handler that tests dryRun before it asks for the confirmation.
HandlerStepsDryRunFirst(def) ==
  IF def.steps = <<"confirm", "dryRun", "call">>
    THEN <<"dryRun", "confirm", "call">> ELSE def.steps

\* A handler that asks for the confirmation whatever its tool is.
HandlerStepsAlwaysConfirm(def) ==
  IF def.steps[1] = "confirm" THEN def.steps ELSE <<"confirm">> \o def.steps

\* The order in which the handler performs its checks and its call.
HandlerSteps(def) == def.steps

\* A handler without the dry-run return.
DryRunIgnored(input) == FALSE

\* `if (dryRun)`
DryRunRequested(input) == Truthy(Field(input, "dryRun"))

NoResult == [content |-> <<>>]

\* The handler from its entry to its first await or its return: trace is
\* the steps it performed, calls the requests it handed to the client.
RECURSIVE RunHandler(_, _, _, _)
RunHandler(def, input, i, trace) ==
  LET step == HandlerSteps(def)[i]
      done == Append(trace, step)
  IN CASE step = "confirm" ->
            LET guard == requireConfirmation(Field(input, "confirm"), def.action)
            IN IF guard # Null
                 THEN [outcome |-> "Denied", result |-> guard, trace |-> done,
                       calls |-> <<>>]
                 ELSE RunHandler(def, input, i + 1, done)
       [] step = "dryRun" ->
            IF DryRunRequested(input)
              THEN [outcome |-> "Preview",
                    result |-> formatDryRun(def.dry.method, DryRunPath(def, input),
                                            DryRunBody(def, input)),
                    trace |-> done, calls |-> <<>>]
              ELSE RunHandler(def, input, i + 1, done)
       [] step = "call" ->
            [outcome |-> "Await", result |-> NoResult, trace |-> done,
             calls |-> <<ClientCall(def.call.verb, CallPath(def, input),
                                    CallBody(def, input))>>]

Handler(name, input) == RunHandler(ToolNamed(name), input, 1, <<>>)

-----------------------------------------------------------------------------
(* Inputs.  Every input passes the tool's schema: a required field has a   *)
(* value, and an optional one may be left out (undefined).  The optional   *)
(* fields other than confirm and dryRun are left out together or given     *)
(* together.                                                               *)

Profiles == {"omitted", "given"}
ConfirmInputs == {Undefined, Bool(FALSE), Bool(TRUE)}
DryRunInputs == {Undefined, Bool(FALSE), Bool(TRUE)}

SampleValue(field, profile) ==
  CASE field \in {"offset"} -> Num("0")
    [] field \in {"limit"} -> Num("25")
    [] field = "filter" -> Str("name.like(a*)")
    [] field = "force" -> Bool(TRUE)
    [] field \in {"portIdx", "vlanId", "count", "authorizedGuestLimit"} -> Num("3")
    [] field \in {"timeLimitMinutes", "dataUsageLimitMBytes", "rxRateLimitKbps",
                  "txRateLimitKbps"} -> Num("100")
    [] field = "enabled" -> Bool(FALSE)
    [] field \in {"sourceFirewallZoneId", "destinationFirewallZoneId"} -> Str("zone a")
    [] field \in {"networkIds", "orderedAclRuleIds", "items"} ->
         Arr(<<Str("n1"), Str("n2")>>)
    [] field = "broadcastingFrequenciesGHz" ->
         Arr(IF profile = "given" THEN <<Str("2.4"), Str("5")>> ELSE <<Str("fast")>>)
    [] field \in {"policy", "rule"} ->
         IF profile = "given"
           THEN Obj(<< <<"name", Str("p")>>, <<"loggingEnabled", Bool(TRUE)>> >>)
           ELSE Obj(<<>>)
    [] field = "orderedFirewallPolicyIds" ->
         Obj(<< <<"beforeSystemDefined", Arr(<<Str("p1")>>)>>,
                <<"afterSystemDefined", Arr(<<>>)>> >>)
    [] field = "protocolFilter" -> Arr(<<Str("TCP")>>)
    [] OTHER -> Str(field \o "-1")

Inputs(config, optional) ==
  { [f \in config.inputSchema |->
       CASE f = "confirm" -> c
         [] f = "dryRun" -> d
         [] f \in optional -> IF profile = "given" THEN SampleValue(f, profile)
                                                   ELSE Undefined
         [] OTHER -> SampleValue(f, profile)] :
      profile \in Profiles, c \in ConfirmInputs, d \in DryRunInputs }

\* What the network collaborator answers: an ok response with its data, or
\* a response that is not ok, on which request() throws.
Responses ==
  { [kind |-> "ok", data |-> Obj(<< <<"id", Str("x1")>> >>)],
    [kind |-> "http", status |-> "404", text |-> "Not Found"] }

NoResponse == [kind |-> "none"]

-----------------------------------------------------------------------------
(* config.ts                                                               *)

\* s.toLowerCase(), on the strings the model uses.
toLowerCase(s) ==
  CASE s \in {"FALSE", "False", "fAlSe"} -> "false"
    [] s \in {"TRUE", "True"} -> "true"
    [] s = "No" -> "no"
    [] OTHER -> s

\* A flag read as an ordinary boolean: true only for "true".
EnvFlagParsed(v) == v # Undefined /\ toLowerCase(v.s) = "true"

\* A flag compared with "false" without toLowerCase().
EnvFlagCaseSensitive(v) == v = Undefined \/ v.s # "false"

\* process.env.X?.toLowerCase() !== "false"
EnvFlag(v) == v = Undefined \/ toLowerCase(v.s) # "false"

\* z.string().min(1)
NonEmptyString(v) == v.t = "string" /\ v.s # ""

\* loadConfig(): the parsed configuration, or process.exit(1) when the
\* schema rejects the host or the API key.
loadConfig(env) ==
  LET input == [host |-> env.UNIFI_NETWORK_HOST,
                apiKey |-> env.UNIFI_NETWORK_API_KEY,
                verifySsl |-> EnvFlag(env.UNIFI_NETWORK_VERIFY_SSL),
                readOnly |-> EnvFlag(env.UNIFI_NETWORK_READ_ONLY)]
  IN IF NonEmptyString(input.host) /\ NonEmptyString(input.apiKey)
       THEN [success |-> TRUE, data |-> input]
       ELSE [success |-> FALSE, exit |-> 1]

\* The environments a process is started in.
Environments ==
  [UNIFI_NETWORK_HOST : {Undefined, Str(""), Str("192.168.1.1")},
   UNIFI_NETWORK_API_KEY : {Undefined, Str("key")},
   UNIFI_NETWORK_VERIFY_SSL : {Undefined, Str("false"), Str("true")},
   UNIFI_NETWORK_READ_ONLY :
     {Undefined, Str("false"), Str("FALSE"), Str("False"), Str("fAlSe"),
      Str("true"), Str("TRUE"), Str(""), Str("0"), Str("No"), Str("off"),
      Str(" false")}]

-----------------------------------------------------------------------------
(* The process.                                                            *)

VARIABLES
  readOnly,   \* config.readOnly, fixed when main() loads the configuration
  pc,         \* main(): the group registerAllTools registers next, then
              \* "registered", then "connected"
  registry,   \* the names of the server's tools, in registration order
  slots,      \* the invocations in progress
  probe       \* the latest direct application of a utility function

vars == <<readOnly, pc, registry, slots, probe>>

Slots == 1..MaxInflight

IdleSlot == [st |-> "idle"]

NoProbe == [fn |-> "none"]

\* main(): config = loadConfig(), and the process goes on when it has not
\* exited.
Init ==
  /\ \E env \in Environments :
       /\ loadConfig(env).success
       /\ readOnly = loadConfig(env).data.readOnly
  /\ pc = GroupOrder[1]
  /\ registry = <<>>
  /\ slots = [s \in Slots |-> IdleSlot]
  /\ probe = NoProbe

\* One register*Tools call of registerAllTools.
Register(group) ==
  /\ pc = group
  /\ registry' = registry \o ToolNames(GroupTools(group, readOnly))
  /\ pc' = LET i == CHOOSE j \in 1..Len(GroupOrder) : GroupOrder[j] = group
           IN IF i = Len(GroupOrder) THEN "registered" ELSE GroupOrder[i + 1]
  /\ UNCHANGED <<readOnly, slots, probe>>

RegisterSystemTools == Register("system")
RegisterSiteTools == Register("sites")
RegisterDeviceTools == Register("devices")
RegisterClientTools == Register("clients")
RegisterNetworkTools == Register("networks")
RegisterWifiTools == Register("wifi")
RegisterHotspotTools == Register("hotspot")
RegisterFirewallTools == Register("firewall")
RegisterAclTools == Register("acl")
RegisterDnsPolicyTools == Register("dns-policies")
RegisterTrafficMatchingTools == Register("traffic-matching")
RegisterSupportingTools == Register("supporting")

\* await server.connect(transport)
Connect ==
  /\ pc = "registered"
  /\ pc' = "connected"
  /\ UNCHANGED <<readOnly, registry, slots, probe>>

\* A handler's run from its entry to its return or its first await is a
\* function of its input: the runs of each tool, over the inputs its schema
\* accepts.
Invocations ==
  [name \in Names(AllTools) |->
     {[input |-> input, run |-> Handler(name, input)] :
        input \in Inputs(Registered(name), ToolNamed(name).optional)}]

\* A server that remembers a denial: once a call has been denied, the tool
\* stays locked and every later call of it is denied as well.
InvokeLockedOut(s) ==
  /\ pc = "connected"
  /\ slots[s].st = "idle"
  /\ \E i \in 1..Len(registry) :
       \E inv \in Invocations[registry[i]] :
         LET locked == /\ probe.fn = "earlier"
                       /\ probe.call.tool = registry[i]
                       /\ probe.call.outcome = "Denied"
             run == IF locked THEN Handler(registry[i], probe.call.input)
                              ELSE inv.run
         IN slots' = [slots EXCEPT ![s] =
                        [st |-> IF run.outcome = "Await" THEN "pending" ELSE "done",
                         tool |-> registry[i], input |-> inv.input,
                         outcome |-> run.outcome, trace |-> run.trace,
                         calls |-> run.calls, response |-> NoResponse,
                         result |-> run.result]]
  /\ UNCHANGED <<readOnly, pc, registry, probe>>

\* A client calls a registered tool with an input its schema accepts.  The
\* handler runs to its return or to its await of the client call.
Invoke(s) ==
  /\ pc = "connected"
  /\ slots[s].st = "idle"
  /\ \E i \in 1..Len(registry) :
       \E inv \in Invocations[registry[i]] :
         slots' = [slots EXCEPT ![s] =
                     [st |-> IF inv.run.outcome = "Await" THEN "pending" ELSE "done",
                      tool |-> registry[i], input |-> inv.input,
                      outcome |-> inv.run.outcome, trace |-> inv.run.trace,
                      calls |-> inv.run.calls, response |-> NoResponse,
                      result |-> inv.run.result]]
  /\ UNCHANGED <<readOnly, pc, registry, probe>>

\* A handler whose client call is not inside its try block.
CaughtNever(def) == FALSE

\* The handler's client call is inside `try { ... } catch (err) { return
\* formatError(err); }`.
Caught(def) == "call" \in def.try /\ def.catch = "formatError"

\* A handler whose success result tells whether the call was made before.
SettleCounting(slot, response) ==
  IF response.kind = "ok"
    THEN [slot EXCEPT !.st = "done", !.outcome = "Success", !.response = response,
                      !.result = IF probe.fn = "earlier"
                                   THEN formatSuccess(Obj(<< <<"repeated", Bool(TRUE)>> >>))
                                   ELSE formatSuccess(response.data)]
    ELSE [slot EXCEPT !.st = "done", !.outcome = "Failure", !.response = response,
                      !.result = formatError(ErrorMessage(response))]

\* A client that keeps the latest error for all its calls: once a call has
\* failed, a call that settles later returns that error as well.
SettleShared(slot, response) ==
  IF \E t \in DOMAIN slots : slots[t].st = "done" /\ slots[t].outcome = "Failure"
    THEN LET t == CHOOSE t \in DOMAIN slots :
                    slots[t].st = "done" /\ slots[t].outcome = "Failure"
         IN [slot EXCEPT !.st = "done", !.outcome = "Failure", !.response = response,
                         !.result = slots[t].result]
    ELSE IF response.kind = "ok"
      THEN [slot EXCEPT !.st = "done", !.outcome = "Success", !.response = response,
                        !.result = formatSuccess(response.data)]
      ELSE [slot EXCEPT !.st = "done", !.outcome = "Failure", !.response = response,
                        !.result = formatError(ErrorMessage(response))]

\* A handler that calls the client again when the call has failed.
SettleWithRetry(slot, response) ==
  IF response.kind = "ok"
    THEN [slot EXCEPT !.st = "done", !.outcome = "Success", !.response = response,
                      !.result = formatSuccess(response.data)]
    ELSE IF Len(slot.calls) < 2
      THEN [slot EXCEPT !.calls = Append(@, @[1])]
      ELSE [slot EXCEPT !.st = "done", !.outcome = "Failure", !.response = response,
                        !.result = formatError(ErrorMessage(response))]

\* The handler from the settling of its client call to its end: it returns
\* formatSuccess(data), or formatError(err) from its catch clause; an error
\* that no catch clause takes leaves the handler as an exception.
Settle(slot, response) ==
  IF response.kind = "ok"
    THEN [slot EXCEPT !.st = "done", !.outcome = "Success", !.response = response,
                      !.result = formatSuccess(response.data)]
    ELSE IF Caught(ToolNamed(slot.tool))
      THEN [slot EXCEPT !.st = "done", !.outcome = "Failure", !.response = response,
                        !.result = formatError(ErrorMessage(response))]
      ELSE [slot EXCEPT !.st = "done", !.outcome = "Thrown", !.response = response,
                        !.result = NoResult]

\* The client call of a waiting handler settles.
Respond(s, response) ==
  /\ slots[s].st = "pending"
  /\ response \in Responses
  /\ slots' = [slots EXCEPT ![s] = Settle(slots[s], response)]
  /\ UNCHANGED <<readOnly, pc, registry, probe>>

\* A server that unregisters its latest tool when a call has ended.
ReturnUnregistering(s) ==
  /\ slots[s].st = "done"
  /\ slots' = [slots EXCEPT ![s] = IdleSlot]
  /\ registry' = SubSeq(registry, 1, Len(registry) - 1)
  /\ UNCHANGED <<readOnly, pc, probe>>

\* The caller has taken the result.
Return(s) ==
  /\ slots[s].st = "done"
  /\ slots' = [slots EXCEPT ![s] = IdleSlot]
  /\ UNCHANGED <<readOnly, pc, registry, probe>>

Next ==
  \/ RegisterSystemTools
  \/ RegisterSiteTools
  \/ RegisterDeviceTools
  \/ RegisterClientTools
  \/ RegisterNetworkTools
  \/ RegisterWifiTools
  \/ RegisterHotspotTools
  \/ RegisterFirewallTools
  \/ RegisterAclTools
  \/ RegisterDnsPolicyTools
  \/ RegisterTrafficMatchingTools
  \/ RegisterSupportingTools
  \/ Connect
  \/ \E s \in Slots : Invoke(s)
  \/ \E s \in Slots, response \in Responses : Respond(s, response)
  \/ \E s \in Slots : Return(s)

Spec == Init /\ [][Next]_vars

\* The promise a handler awaits settles: fetch ends with a response or with
\* an error, and the event loop then resumes the handler.
Fairness ==
  \A s \in Slots : WF_vars(\E response \in Responses : Respond(s, response))

SpecFair == Spec /\ Fairness

-----------------------------------------------------------------------------
(* A client that repeats a call.  It makes one call, keeps what came back, *)
(* and then calls the same tool again, with the same input or with the     *)
(* same input and confirm: true.  The server is the one above; probe is    *)
(* the client's note of its first call.                                    *)

Quiet == \A s \in Slots : slots[s].st = "idle"

\* The inputs of the repeated call.
Again(input) ==
  {input} \cup (IF "confirm" \in DOMAIN input
                  THEN {[input EXCEPT !["confirm"] = Bool(TRUE)]}
                  ELSE {})

FirstCall(s) ==
  /\ probe = NoProbe
  /\ Quiet
  /\ Invoke(s)

\* The client takes the result of its first call and keeps it.
Remember(s) ==
  /\ probe = NoProbe
  /\ slots[s].st = "done"
  /\ slots' = [slots EXCEPT ![s] = IdleSlot]
  /\ probe' = [fn |-> "earlier", call |-> slots[s]]
  /\ UNCHANGED <<readOnly, pc, registry>>

CallAgain(s) ==
  /\ probe.fn = "earlier"
  /\ Quiet
  /\ Invoke(s)
  /\ slots'[s].tool = probe.call.tool
  /\ slots'[s].input \in Again(probe.call.input)

\* The client takes the result of a repeated call.
ReturnAgain(s) ==
  /\ probe.fn = "earlier"
  /\ Return(s)

NextTwice ==
  \/ RegisterSystemTools
  \/ RegisterSiteTools
  \/ RegisterDeviceTools
  \/ RegisterClientTools
  \/ RegisterNetworkTools
  \/ RegisterWifiTools
  \/ RegisterHotspotTools
  \/ RegisterFirewallTools
  \/ RegisterAclTools
  \/ RegisterDnsPolicyTools
  \/ RegisterTrafficMatchingTools
  \/ RegisterSupportingTools
  \/ Connect
  \/ \E s \in Slots : FirstCall(s)
  \/ \E s \in Slots, response \in Responses : Respond(s, response)
  \/ \E s \in Slots : Remember(s)
  \/ \E s \in Slots : CallAgain(s)
  \/ \E s \in Slots : ReturnAgain(s)

SpecTwice == Init /\ [][NextTwice]_vars

-----------------------------------------------------------------------------
(* Two calls that overlap.  A client makes a call and, while that call     *)
(* awaits the network, makes another one, of the same tool or of another;  *)
(* the two client calls then settle in either order.                       *)

Pair == {1, 2}

InitOverlap ==
  /\ \E env \in Environments :
       /\ loadConfig(env).success
       /\ readOnly = loadConfig(env).data.readOnly
  /\ pc = GroupOrder[1]
  /\ registry = <<>>
  /\ slots = [s \in Pair |-> IdleSlot]
  /\ probe = NoProbe

CallOne ==
  /\ \A s \in Pair : slots[s].st = "idle"
  /\ Invoke(1)

CallOther ==
  /\ slots[1].st = "pending"
  /\ Invoke(2)

NextOverlap ==
  \/ RegisterSystemTools
  \/ RegisterSiteTools
  \/ RegisterDeviceTools
  \/ RegisterClientTools
  \/ RegisterNetworkTools
  \/ RegisterWifiTools
  \/ RegisterHotspotTools
  \/ RegisterFirewallTools
  \/ RegisterAclTools
  \/ RegisterDnsPolicyTools
  \/ RegisterTrafficMatchingTools
  \/ RegisterSupportingTools
  \/ Connect
  \/ CallOne
  \/ CallOther
  \/ \E s \in Pair, response \in Responses : Respond(s, response)

SpecOverlap == InitOverlap /\ [][NextOverlap]_vars

-----------------------------------------------------------------------------
(* The utility functions applied directly, as their unit tests do.         *)

Methods == {"GET", "POST", "PUT", "PATCH", "DELETE"}

Paths == {"/sites/s1/devices/d1", "/sites/s1/networks/n1?force=true",
          "/sites/s1/hotspot/vouchers?filter=name.like%28a*%29"}

\* JSON-serializable request payloads, and undefined for an omitted body.
Bodies ==
  { Undefined, Null, Obj(<<>>), Arr(<<>>), Str(""), Str("Guest"), Num("0"),
    Bool(FALSE),
    Obj(<< <<"name", Str("Guest")>> >>),
    Obj(<< <<"name", Str("Guest")>>, <<"enabled", Bool(TRUE)>>, <<"vlanId", Num("10")>> >>),
    Obj(<< <<"ids", Arr(<<Str("a"), Num("1"), Null, Bool(TRUE)>>)>>,
           <<"nested", Obj(<< <<"body", Obj(<<>>)>>, <<"list", Arr(<<Arr(<<>>)>>)>> >>)>> >>) }

\* What a caller that bypasses the schema can pass as confirm.
ConfirmValues ==
  { Undefined, Null, Bool(TRUE), Bool(FALSE), Str("true"), Str("yes"), Str(""),
    Num("1"), Num("0"), Obj(<<>>), Arr(<<>>) }

Actions == {"delete all", "remove device"}

InitUtil ==
  /\ readOnly = TRUE
  /\ pc = GroupOrder[1]
  /\ registry = <<>>
  /\ slots = [s \in Slots |-> IdleSlot]
  /\ probe = NoProbe

ApplyFormatDryRun ==
  /\ \E method \in Methods, path \in Paths, body \in Bodies :
       probe' = [fn |-> "formatDryRun", method |-> method, path |-> path,
                 body |-> body, out |-> formatDryRun(method, path, body)]
  /\ UNCHANGED <<readOnly, pc, registry, slots>>

ApplyRequireConfirmation ==
  /\ \E confirm \in ConfirmValues, action \in Actions :
       probe' = [fn |-> "requireConfirmation", confirm |-> confirm,
                 action |-> action, out |-> requireConfirmation(confirm, action)]
  /\ UNCHANGED <<readOnly, pc, registry, slots>>

ApplyLoadConfig ==
  /\ \E env \in Environments :
       probe' = [fn |-> "loadConfig", env |-> env, out |-> loadConfig(env)]
  /\ UNCHANGED <<readOnly, pc, registry, slots>>

\* What a caller passes for one property of params: the property left
\* out, given as undefined, or given a value.
Omitted == [t |-> "omitted"]

Offsets == {Omitted, Undefined, Num("0"), Num("10")}
Limits == {Omitted, Undefined, Num("0"), Num("25")}
Filters == {Omitted, Undefined, Str(""), Str("active"), Str("name.like(a*)")}

Property(k, v) == IF v = Omitted THEN <<>> ELSE << <<k, v>> >>

ApplyBuildQuery ==
  /\ \E offset \in Offsets, limit \in Limits, filter \in Filters :
       LET params == Obj(Property("offset", offset) \o Property("limit", limit)
                           \o Property("filter", filter))
       IN probe' = [fn |-> "buildQuery", params |-> params,
                    out |-> buildQuery(params)]
  /\ UNCHANGED <<readOnly, pc, registry, slots>>

NextUtil ==
  ApplyFormatDryRun \/ ApplyRequireConfirmation \/ ApplyLoadConfig \/ ApplyBuildQuery

SpecUtil == InitUtil /\ [][NextUtil]_vars

-----------------------------------------------------------------------------
(* client.ts: NetworkClient instances in one process, as its unit tests    *)
(* make them.  probe holds process.env.NODE_TLS_REJECT_UNAUTHORIZED (env,  *)
(* and start, its value when the process started), the configurations of  *)
(* the clients constructed so far, and the latest construction or request. *)

\* A constructor that sets the flag back for a verifying client.
constructorResetting(env, config) ==
  IF ~config.verifySsl THEN Str("0") ELSE Str("1")

\* constructor(config): its effect on process.env.NODE_TLS_REJECT_UNAUTHORIZED.
\* baseUrl and headers are fixed here and never written again.
constructor(env, config) ==
  IF ~config.verifySsl THEN Str("0") ELSE env

\* fetch(url, options) is given no TLS option: the runtime verifies the
\* server's certificate unless the process-wide flag is "0".
CertificateVerified(env) == env # Str("0")

\* What fetch resolves with, or how it fails.
ClientResponses ==
  { [kind |-> "ok", json |-> TRUE, data |-> Obj(<< <<"id", Str("x1")>> >>)],
    [kind |-> "ok", json |-> FALSE, data |-> Str("plain text")],
    [kind |-> "http", status |-> "404", text |-> "Not Found"],
    [kind |-> "http", status |-> "500", text |-> ""],
    [kind |-> "http", status |-> "401",
     text |-> "{\"message\":\"Unauthorized\"}"],
    [kind |-> "error", text |-> "fetch failed"] }

\* A request() that hands the text of a failed response back as its value.
requestSettlesLenient(response) ==
  IF response.kind \in {"ok", "http"}
    THEN [kind |-> "resolve",
          value |-> IF response.kind = "ok" THEN response.data ELSE Str(response.text)]
    ELSE [kind |-> "reject", message |-> ErrorMessage(response)]

\* request() after `await fetch(url, options)`: it throws for a response
\* that is not ok, returns response.json() or response.text() for one that
\* is, and a rejection of fetch passes through.
requestSettles(response) ==
  IF response.kind = "ok"
    THEN [kind |-> "resolve", value |-> response.data]
    ELSE [kind |-> "reject", message |-> ErrorMessage(response)]

Verbs == {"get", "post", "put", "patch", "delete"}

Payloads == {Undefined, Obj(<< <<"name", Str("Guest")>> >>)}

InitClient ==
  /\ readOnly = TRUE
  /\ pc = GroupOrder[1]
  /\ registry = <<>>
  /\ slots = [s \in Slots |-> IdleSlot]
  /\ \E start \in {Undefined, Str("0"), Str("1")} :
       probe = [fn |-> "NetworkClient", start |-> start, env |-> start,
                clients |-> <<>>, last |-> [op |-> "none"]]

\* new NetworkClient(config)
Construct ==
  /\ Len(probe.clients) < MaxClients
  /\ \E verifySsl \in BOOLEAN :
       LET config == [verifySsl |-> verifySsl]
       IN probe' = [probe EXCEPT
                      !.env = constructor(probe.env, config),
                      !.clients = Append(@, config),
                      !.last = [op |-> "new", config |-> config,
                                before |-> probe.env]]
  /\ UNCHANGED <<readOnly, pc, registry, slots>>

\* client.get(path), client.post(path, body), ... and the settling of the
\* promise it returns.
Request ==
  /\ \E c \in 1..Len(probe.clients), verb \in Verbs, path \in {"/sites"},
        body \in Payloads, response \in ClientResponses :
       probe' = [probe EXCEPT
                   !.last = [op |-> "request", client |-> c, verb |-> verb,
                             sent |-> ClientCall(verb, path, body),
                             verified |-> CertificateVerified(probe.env),
                             response |-> response,
                             settled |-> requestSettles(response)]]
  /\ UNCHANGED <<readOnly, pc, registry, slots>>

NextClient == Construct \/ Request

SpecClient == InitClient /\ [][NextClient]_vars

-----------------------------------------------------------------------------
(* Properties.                                                             *)

Busy(s) == slots[s].st # "idle"

IsDestructive(s) == Registered(slots[s].tool).annotations.destructiveHint

IsWriteCapable(s) == ~Registered(slots[s].tool).annotations.readOnlyHint

IsError(result) == "isError" \in DOMAIN result /\ result.isError

TextOf(result) == result.content[1].text

WouldExecute(result) == Get(JSONParse(TextOf(result)), "wouldExecute")

\* For each write-capable tool and each input, the handler's run on that
\* input with dryRun: true, and the wouldExecute object of its preview.
Previews ==
  [name \in {n \in Names(AllTools) : ~Registered(n).annotations.readOnlyHint} |->
     [input \in {inv.input : inv \in Invocations[name]} |->
        LET run == Handler(name, [input EXCEPT !["dryRun"] = Bool(TRUE)])
        IN [outcome |-> run.outcome,
            wouldExecute |-> IF run.outcome = "Preview"
                               THEN WouldExecute(run.result) ELSE Undefined]]]

\* The preview for the input of slot s with dryRun: true.
PreviewFor(s) == Previews[slots[s].tool][slots[s].input]

\* C1: an invocation of a destructive tool whose confirm is omitted or false
\* has returned an error result whose text contains "confirm", and has made
\* no call to the network collaborator, whatever its other inputs.
C1_UnconfirmedIsDenied ==
  \A s \in Slots :
    (/\ Busy(s)
     /\ IsDestructive(s)
     /\ Field(slots[s].input, "confirm") \in {Undefined, Bool(FALSE)})
    => /\ slots[s].st = "done"
       /\ IsError(slots[s].result)
       /\ Contains(TextOf(slots[s].result), "confirm")
       /\ slots[s].calls = <<>>

C1_Witness ==
  \E s \in Slots :
    /\ Busy(s)
    /\ IsDestructive(s)
    /\ Field(slots[s].input, "confirm") = Undefined
    /\ Field(slots[s].input, "dryRun") = Undefined
    /\ slots[s].outcome = "Denied"

\* C2: a destructive tool's handler asks for the confirmation before it tests
\* dryRun and before any network call: with dryRun true and confirm not true
\* it returns the confirmation error and no preview.
C2_ConfirmationBeforeDryRun ==
  \A s \in Slots :
    (Busy(s) /\ IsDestructive(s))
    => /\ slots[s].trace[1] = "confirm"
       /\ (/\ Field(slots[s].input, "dryRun") = Bool(TRUE)
           /\ Field(slots[s].input, "confirm") # Bool(TRUE))
          => /\ slots[s].outcome = "Denied"
             /\ slots[s].trace = <<"confirm">>
             /\ slots[s].result = ConfirmationError(ToolNamed(slots[s].tool).action)
             /\ slots[s].calls = <<>>

C2_Witness ==
  \E s \in Slots :
    /\ Busy(s)
    /\ slots[s].tool = "unifi_bulk_delete_vouchers"
    /\ Field(slots[s].input, "dryRun") = Bool(TRUE)
    /\ Field(slots[s].input, "confirm") = Bool(FALSE)
    /\ slots[s].st = "done"

\* C3: an invocation of a write-capable tool with dryRun true (and confirm
\* true when the tool is destructive) makes no network call and returns a
\* result that is no error and whose payload has dryRun = true.
C3_DryRunMakesNoCall ==
  \A s \in Slots :
    (/\ Busy(s)
     /\ IsWriteCapable(s)
     /\ Field(slots[s].input, "dryRun") = Bool(TRUE)
     /\ IsDestructive(s) => Field(slots[s].input, "confirm") = Bool(TRUE))
    => /\ slots[s].st = "done"
       /\ slots[s].calls = <<>>
       /\ ~IsError(slots[s].result)
       /\ Get(JSONParse(TextOf(slots[s].result)), "dryRun") = Bool(TRUE)

C3_Witness ==
  \E s \in Slots :
    /\ Busy(s)
    /\ IsDestructive(s)
    /\ Field(slots[s].input, "dryRun") = Bool(TRUE)
    /\ Field(slots[s].input, "confirm") = Bool(TRUE)
    /\ slots[s].outcome = "Preview"

\* C4: for a write-capable tool, the method and the path (query string
\* included) its dry-run preview reports are the HTTP verb and the path of
\* the network call the same input makes without dryRun.
C4_PreviewMethodAndPathMatchCall ==
  \A s \in Slots :
    (Busy(s) /\ IsWriteCapable(s) /\ slots[s].calls # <<>>)
    => LET dry == PreviewFor(s)
           we == dry.wouldExecute
           call == slots[s].calls[1]
       IN /\ dry.outcome = "Preview"
          /\ Get(we, "method") = Str(call.method)
          /\ Get(we, "path") = Str(call.path)

C4_Witness ==
  \E s \in Slots :
    /\ Busy(s)
    /\ slots[s].tool = "unifi_delete_network"
    /\ slots[s].calls # <<>>
    /\ slots[s].calls[1].method = "DELETE"
    /\ slots[s].calls[1].path = "/sites/siteId-1/networks/networkId-1?force=true"

\* C5: for a write-capable tool, the dry-run preview reports the body the
\* real call sends, and has no body key when the real call sends no body.
C5_PreviewBodyMatchesCall ==
  \A s \in Slots :
    (Busy(s) /\ IsWriteCapable(s) /\ slots[s].calls # <<>>)
    => LET we == PreviewFor(s).wouldExecute
           call == slots[s].calls[1]
       IN /\ HasKey(we, "body") <=> "body" \in DOMAIN call
          /\ "body" \in DOMAIN call => JSONStringify(Get(we, "body")) = call.body

\* C6: in read-only mode every registered tool is annotated readOnlyHint =
\* true and destructiveHint = false, and no registered input shape has a
\* dryRun or a confirm field.
C6_ReadOnlyModeRegistersReadOnlyTools ==
  readOnly =>
    \A i \in 1..Len(registry) :
      LET config == Registered(registry[i])
      IN /\ config.annotations.readOnlyHint = TRUE
         /\ config.annotations.destructiveHint = FALSE
         /\ "dryRun" \notin config.inputSchema
         /\ "confirm" \notin config.inputSchema

C6_Witness == readOnly /\ pc = "connected" /\ Len(registry) > 1

RegistrationDone == pc \in {"registered", "connected"}

\* What a run of the other mode registers, to compare the registry with.
ReadOnlyRun == ToolNames(registerAllTools(TRUE))

ReadWriteRun == ToolNames(registerAllTools(FALSE))

RegisteredBy(run) == {run[i] : i \in 1..Len(run)}

ReadOnlyNames == RegisteredBy(ReadOnlyRun)

ReadWriteNames == RegisteredBy(ReadWriteRun)

\* C7: the names registered with readOnly = true are a strict subset of the
\* names registered with readOnly = false, and every tool registered only
\* with readOnly = false is annotated readOnlyHint = false.
C7_ReadOnlyNamesStrictSubset ==
  RegistrationDone =>
    LET ro == IF readOnly THEN RegisteredBy(registry) ELSE ReadOnlyNames
        rw == IF readOnly THEN ReadWriteNames ELSE RegisteredBy(registry)
    IN /\ ro \subseteq rw
       /\ ro # rw
       /\ \A name \in rw \ ro : Registered(name).annotations.readOnlyHint = FALSE

C7_Witness ==
  /\ pc = "connected"
  /\ readOnly
  /\ Cardinality(RegisteredBy(registry)) < Cardinality(RegisteredBy(ReadWriteRun))

\* C8: the tools registered with readOnly = true are exactly the tools that
\* carry readOnlyHint = true when registered with readOnly = false, and each
\* carries the same ReadOnly annotation in both modes.
C8_ReadOnlyToolsSameInBothModes ==
  RegistrationDone =>
    LET ro == IF readOnly THEN RegisteredBy(registry) ELSE ReadOnlyNames
        rw == IF readOnly THEN ReadWriteNames ELSE RegisteredBy(registry)
    IN /\ ro = {name \in rw : Registered(name).annotations.readOnlyHint}
       /\ \A name \in ro : Registered(name).annotations = READ_ONLY

C8_Witness ==
  /\ pc = "registered"
  /\ readOnly
  /\ "unifi_list_countries" \in RegisteredBy(registry)
  /\ "unifi_get_voucher" \in RegisteredBy(registry)

\* C9: requireConfirmation returns null exactly when confirm is the boolean
\* true; for false, undefined and every other value, truthy ones included,
\* it returns an error envelope with isError = true.
C9_NullIffConfirmIsTrue ==
  probe.fn = "requireConfirmation" =>
    /\ probe.out = Null <=> probe.confirm = Bool(TRUE)
    /\ probe.out # Null => IsError(probe.out)

C9_Witness ==
  /\ probe.fn = "requireConfirmation"
  /\ probe.confirm = Str("yes")
  /\ probe.out # Null

\* C10: parsing the text of formatDryRun(method, path, body) yields
\* wouldExecute.method = method, wouldExecute.path = path and a
\* wouldExecute.body equal to body; when body is undefined, wouldExecute has
\* no body key.
C10_FormatDryRunRoundTrip ==
  probe.fn = "formatDryRun" =>
    LET parsed == JSONParse(TextOf(probe.out))
        we == Get(parsed, "wouldExecute")
    IN /\ Get(parsed, "dryRun") = Bool(TRUE)
       /\ Get(we, "method") = Str(probe.method)
       /\ Get(we, "path") = Str(probe.path)
       /\ probe.body # Undefined => HasKey(we, "body") /\ Get(we, "body") = probe.body
       /\ probe.body = Undefined => ~HasKey(we, "body")

C10_Witness ==
  /\ probe.fn = "formatDryRun"
  /\ probe.body = Undefined
  /\ probe.method = "DELETE"

\* description.startsWith(w), decided on fragment boundaries.
StartsWith(text, w) == Len(text) > 0 /\ text[1] = w

\* C11: every registered tool whose annotation has readOnlyHint = false has
\* a dryRun field in its input shape, declared optional.
C11_WriteToolsExposeDryRun ==
  \A i \in 1..Len(registry) :
    LET config == Registered(registry[i])
    IN ~config.annotations.readOnlyHint
         => /\ "dryRun" \in config.inputSchema
            /\ "dryRun" \in ToolNamed(registry[i]).optional

C11_Witness ==
  /\ ~readOnly
  /\ pc = "connected"
  /\ \E i \in 1..Len(registry) :
       /\ Registered(registry[i]).annotations = WRITE_NOT_IDEMPOTENT
       /\ "dryRun" \in Registered(registry[i]).inputSchema

\* C12: every registered tool with destructiveHint = true has a confirm
\* field and a description that starts with "DESTRUCTIVE:"; no registered
\* tool without destructiveHint = true has a confirm field.
C12_DestructiveToolsAreMarked ==
  \A i \in 1..Len(registry) :
    LET config == Registered(registry[i])
    IN IF config.annotations.destructiveHint
         THEN /\ "confirm" \in config.inputSchema
              /\ StartsWith(config.description, "DESTRUCTIVE:")
         ELSE "confirm" \notin config.inputSchema

C12_Witness ==
  /\ ~readOnly
  /\ pc = "registered"
  /\ \E i \in 1..Len(registry) :
       /\ registry[i] = "unifi_bulk_delete_vouchers"
       /\ Registered(registry[i]).annotations.destructiveHint
       /\ "confirm" \in Registered(registry[i]).inputSchema

\* The four annotation records of the annotations module, written out.
FourAnnotations ==
  { [readOnlyHint |-> TRUE, destructiveHint |-> FALSE],
    [readOnlyHint |-> FALSE, destructiveHint |-> FALSE, idempotentHint |-> TRUE],
    [readOnlyHint |-> FALSE, destructiveHint |-> FALSE, idempotentHint |-> FALSE],
    [readOnlyHint |-> FALSE, destructiveHint |-> TRUE, idempotentHint |-> FALSE] }

EndsWith(text, message) ==
  /\ Len(text) >= Len(message)
  /\ SubSeq(text, Len(text) - Len(message) + 1, Len(text)) = message

\* C14: when the network collaborator rejects, the handler returns an error
\* envelope with isError = true whose text carries the error's message; no
\* invocation ends with an exception leaving the handler.
C14_FailuresAreReturned ==
  \A s \in Slots :
    Busy(s) =>
      /\ slots[s].outcome # "Thrown"
      /\ (slots[s].response \in Responses /\ slots[s].response.kind # "ok")
           => /\ slots[s].st = "done"
              /\ slots[s].outcome = "Failure"
              /\ IsError(slots[s].result)
              /\ EndsWith(TextOf(slots[s].result), ErrorMessage(slots[s].response))

C14_Witness ==
  \E s \in Slots :
    /\ Busy(s)
    /\ IsDestructive(s)
    /\ slots[s].response.kind = "http"
    /\ slots[s].outcome = "Failure"

C16_DefaultsToReadWrite ==
  (probe.fn = "loadConfig" /\ probe.out.success) =>
    LET value == probe.env.UNIFI_NETWORK_READ_ONLY
        mode == probe.out.data.readOnly
    IN /\ value = Undefined
            => /\ mode = FALSE
               /\ "unifi_create_network" \in Names(registerAllTools(mode))
       /\ mode = TRUE => value \in {Str("true"), Str("TRUE")}

\* C17: every invocation calls the network collaborator at most once; an
\* invocation that passes the confirmation (or needs none) with dryRun
\* omitted or false calls it exactly once, also when that call fails.
C17_NoRetries ==
  \A s \in Slots :
    Busy(s) =>
      /\ Len(slots[s].calls) <= 1
      /\ (/\ IsDestructive(s) => Field(slots[s].input, "confirm") = Bool(TRUE)
          /\ Field(slots[s].input, "dryRun") \in {Undefined, Bool(FALSE)})
         => Len(slots[s].calls) = 1

C17_Witness ==
  \E s \in Slots :
    /\ Busy(s)
    /\ slots[s].tool = "unifi_delete_network"
    /\ Field(slots[s].input, "dryRun") = Bool(FALSE)
    /\ slots[s].outcome = "Failure"
    /\ Len(slots[s].calls) = 1

\* The outcome of a finished invocation and what it presupposes.
OutcomeAllowed(s) ==
  /\ slots[s].outcome \in {"Denied", "Preview", "Success", "Failure"}
  /\ slots[s].outcome = "Denied" => IsDestructive(s) /\ slots[s].calls = <<>>
  /\ slots[s].outcome = "Preview" => IsWriteCapable(s) /\ slots[s].calls = <<>>
  /\ slots[s].outcome \in {"Success", "Failure"}
       => Len(slots[s].calls) = 1 /\ slots[s].response \in Responses

Repeated(s) ==
  /\ probe.fn = "earlier"
  /\ Busy(s)
  /\ slots[s].tool = probe.call.tool

C21_OverlappingCallsAreIndependent ==
  /\ [](\A s \in Pair :
          slots[s].st = "done" /\ slots[s].calls # <<>>
            => /\ slots[s].response \in Responses
               /\ IF slots[s].response.kind = "ok"
                    THEN /\ slots[s].outcome = "Success"
                         /\ slots[s].result = formatSuccess(slots[s].response.data)
                    ELSE /\ slots[s].outcome = "Failure"
                         /\ slots[s].result
                              = formatError(ErrorMessage(slots[s].response)))
  /\ [][\A s \in Pair, t \in Pair :
          s # t /\ slots'[s] # slots[s] => slots'[t] = slots[t]]_vars

C21_Witness ==
  /\ slots[1].st = "done"
  /\ slots[2].st = "done"
  /\ slots[1].tool = "unifi_update_network"
  /\ slots[2].tool = "unifi_update_network"
  /\ slots[1].input = slots[2].input
  /\ slots[1].outcome = "Success"
  /\ slots[2].outcome = "Failure"
  /\ slots[1].result # slots[2].result

UniformRun ==
  [flag \in BOOLEAN |->
     ToolNames(registerSystemTools \o registerSiteTools
                 \o registerDeviceTools(flag) \o registerClientTools(flag)
                 \o registerNetworkTools(flag) \o registerWifiTools(flag)
                 \o registerHotspotTools(flag) \o registerFirewallTools(flag)
                 \o registerAclTools(flag) \o registerDnsPolicyTools(flag)
                 \o registerTrafficMatchingTools(flag)
                 \o registerSupportingTools)]

\* The groups without mutating tools register the same tools for both flags.
UngatedGroupsIgnoreFlag ==
  \A group \in {"system", "sites", "supporting"} :
    /\ GroupTools(group, TRUE) = GroupTools(group, FALSE)
    /\ \A i \in 1..Len(GroupTools(group, TRUE)) :
         GroupTools(group, TRUE)[i].annotations = READ_ONLY

\* C23: registerAllTools gives every group that has mutating tools the mode
\* flag of the process, so that what is registered is at every moment a
\* prefix of the run in which all these groups see that one flag; system,
\* sites and supporting register the same tools for both values of the flag.
C23_SameFlagForEveryGroup ==
  LET run == UniformRun[readOnly]
  IN /\ Len(registry) <= Len(run)
     /\ registry = SubSeq(run, 1, Len(registry))
     /\ RegistrationDone => registry = run
     /\ UngatedGroupsIgnoreFlag

C23_Witness ==
  /\ readOnly
  /\ pc = "acl"
  /\ registry = SubSeq(UniformRun[TRUE], 1, Len(registry))
  /\ registry # SubSeq(UniformRun[FALSE], 1, Len(registry))
  /\ registry[Len(registry)] = ToolNames(registerFirewallTools(TRUE))[Len(registerFirewallTools(TRUE))]

\* C24: in a process started with readOnly = true every registered handler
\* calls client.get only, and no invocation, whatever came before it, hands
\* the network collaborator a request whose method is not GET.
C24_ReadOnlyProcessOnlyGets ==
  readOnly =>
    /\ \A i \in 1..Len(registry) : ToolNamed(registry[i]).call.verb = "get"
    /\ \A s \in Slots :
         Busy(s) => \A k \in 1..Len(slots[s].calls) :
                      slots[s].calls[k].method = "GET"

C24_Witness ==
  /\ readOnly
  /\ \E s \in Slots :
       /\ slots[s].st = "done"
       /\ slots[s].tool = "unifi_list_acl_rules"
       /\ slots[s].outcome = "Success"
       /\ Len(slots[s].calls) = 1
       /\ slots[s].calls[1].method = "GET"

IsReadOnlyName(name) == Registered(name).annotations.readOnlyHint

\* C25: registration within a group has two phases.  In what a registrar
\* call adds to the registry no mutating tool stands before a read-only one;
\* with readOnly = true it adds exactly the group's read-only tools, all of
\* them, which are the first registrations of the group; with readOnly =
\* false it adds the whole group.  The flag is therefore tested at one place,
\* after the last read-only tool and before the first mutating one.
C25_TwoPhasesPerGroup ==
  [][pc' # pc /\ pc' # "connected"
       => LET added == SubSeq(registry', Len(registry) + 1, Len(registry'))
              group == ToolNames(GroupTools(pc, FALSE))
          IN /\ \A i \in 1..Len(added) : \A j \in (i + 1)..Len(added) :
                  IsReadOnlyName(added[j]) => IsReadOnlyName(added[i])
             /\ readOnly => /\ added = SelectSeq(group, IsReadOnlyName)
                            /\ added = SubSeq(group, 1, Len(added))
             /\ ~readOnly => added = group]_vars

C25_Witness ==
  /\ ~readOnly
  /\ pc = "wifi"
  /\ Len(registry) >= 6
  /\ SubSeq(registry, Len(registry) - 5, Len(registry))
       = <<"unifi_list_networks", "unifi_get_network", "unifi_get_network_references",
           "unifi_create_network", "unifi_update_network", "unifi_delete_network">>

\* C26: the registry is write-once.  Registration only appends; when the
\* server connects its transport everything registerAllTools registers for
\* the mode is registered; from then on no step, of any invocation, changes
\* the registry or the mode, so that every registered name keeps the config
\* it was registered with.
C26_RegistryIsWriteOnce ==
  /\ [](pc = "connected"
          => registry = IF readOnly THEN ReadOnlyRun ELSE ReadWriteRun)
  /\ [][/\ Len(registry') >= Len(registry)
         /\ SubSeq(registry', 1, Len(registry)) = registry
         /\ pc = "connected" => /\ registry' = registry
                                /\ readOnly' = readOnly
                                /\ pc' = pc]_vars

C26_Witness ==
  /\ pc = "connected"
  /\ ~readOnly
  /\ registry = ReadWriteRun
  /\ \E s \in Slots :
       /\ slots[s].st = "done"
       /\ slots[s].tool = "unifi_create_network"
       /\ slots[s].outcome = "Success"

\* C27: constructing a NetworkClient with verifySsl = false sets
\* NODE_TLS_REJECT_UNAUTHORIZED to "0"; constructing one with verifySsl =
\* true leaves the flag as it was, whatever it was.
C27_ConstructorSetsFlagOnlyWhenNotVerifying ==
  probe.fn = "NetworkClient" /\ probe.last.op = "new"
    => IF probe.last.config.verifySsl
         THEN probe.env = probe.last.before
         ELSE probe.env = Str("0")

C27_Witness ==
  /\ probe.fn = "NetworkClient"
  /\ probe.last.op = "new"
  /\ probe.last.config.verifySsl
  /\ probe.last.before = Undefined
  /\ probe.env = Undefined
  /\ Len(probe.clients) = 1

\* C28: in a process that was not started with certificate verification
\* switched off, every request of a client constructed with verifySsl = true
\* is sent with certificate verification enabled, whichever clients were
\* constructed before it.
C28_VerifyingClientVerifies ==
  /\ probe.fn = "NetworkClient"
  /\ probe.start # Str("0")
  /\ probe.last.op = "request"
  /\ probe.clients[probe.last.client].verifySsl
  => probe.last.verified

\* C29: for a response that is not ok the promise of get, post, put, patch
\* and delete rejects with the message "HTTP <status>: <response text>", and
\* it never resolves with the response's content.
C29_NotOkRejects ==
  /\ probe.fn = "NetworkClient"
  /\ probe.last.op = "request"
  /\ probe.last.response.kind = "http"
  => /\ probe.last.settled.kind = "reject"
     /\ probe.last.settled.message
          = <<Raw("HTTP "), Raw(probe.last.response.status), Raw(": "),
              Raw(probe.last.response.text)>>

C29_Witness ==
  /\ probe.fn = "NetworkClient"
  /\ probe.last.op = "request"
  /\ probe.last.verb = "patch"
  /\ probe.last.response = [kind |-> "http", status |-> "404", text |-> "Not Found"]
  /\ probe.last.settled
       = [kind |-> "reject",
          message |-> <<Raw("HTTP "), Raw("404"), Raw(": "), Raw("Not Found")>>]

\* name=value for a defined parameter, and nothing for an undefined one.
Pair1(name, v) ==
  CASE v = Undefined -> <<>>
    [] v.t = "number" -> <<name \o "=" \o v.n>>
    [] OTHER -> <<name \o "=" \o FormEncode(v.s)>>

\* C30: buildQuery returns "" when offset, limit and filter are all
\* undefined, and otherwise "?" followed by the defined parameters, each
\* once, in the order offset, limit, filter, joined by "&"; an offset of 0
\* is a defined value and is included.
C30_BuildQueryListsDefinedParameters ==
  probe.fn = "buildQuery"
    => LET defined == Pair1("offset", Get(probe.params, "offset"))
                        \o Pair1("limit", Get(probe.params, "limit"))
                        \o Pair1("filter", Get(probe.params, "filter"))
       IN probe.out =
            CASE Len(defined) = 0 -> ""
              [] Len(defined) = 1 -> "?" \o defined[1]
              [] Len(defined) = 2 -> "?" \o defined[1] \o "&" \o defined[2]
              [] Len(defined) = 3 ->
                   "?" \o defined[1] \o "&" \o defined[2] \o "&" \o defined[3]

C30_Witness ==
  /\ probe.fn = "buildQuery"
  /\ Get(probe.params, "offset") = Num("0")
  /\ Get(probe.params, "limit") = Undefined
  /\ Get(probe.params, "filter") = Str("active")
  /\ probe.out = "?offset=0&filter=active"

=============================================================================
